---- MODULE Spec2Model ----
(***************************************************************************)
(* Model of echoflow's conversion-orchestration layer:                     *)
(*   - ModelManager          (src/echoflow/ai/model_manager.py)            *)
(*   - BaseConverter.convert (src/echoflow/converters/base.py)             *)
(*   - DoclingConverter      (src/echoflow/converters/docling_converter.py)*)
(*                                                                         *)
(* Strings are sequences of string pieces: concatenation is \o, the empty  *)
(* string is << >>, "s contains piece p" is p \in Range(s).  An optional   *)
(* string is a record [some, val].  Handlers are operators from the state  *)
(* before the call (and the environment's answers) to the state after it   *)
(* and the outcome; the actions apply them.                                *)
(***************************************************************************)
EXTENDS Integers, Sequences, FiniteSets, TLC

VARIABLES
    now,             \* the wall clock read by time.time()
    model_manager,   \* the ModelManager's fields
    construct_calls, \* number of DocumentConverter() calls made so far
    mm_calls,        \* the last (at most two) calls made directly on the manager
    conv_initialized,\* DoclingConverter._initialized
    created_dirs,    \* directories created on the filesystem
    call,            \* the convert() calls: position, inputs, result
    cleanup_log,     \* the last DoclingConverter.cleanup() call
    registry,        \* ConverterRegistry._converters, in registration order
    reg_query,       \* the last query made on the registry
    health,          \* the last poll of the health aggregator
    container,       \* the Container's three dictionaries
    resolved,        \* registrations and get() calls made on the container
    init_call,       \* initialize() calls running statement by statement
    workers          \* engine calls left running in worker threads

vars == <<now, model_manager, construct_calls, mm_calls,
          conv_initialized, created_dirs, call, cleanup_log,
          registry, reg_query, health, container, resolved, init_call, workers>>

mmvars == <<model_manager, construct_calls, mm_calls>>
cvvars == <<conv_initialized, created_dirs, call, cleanup_log>>
ctvars == <<container, resolved>>
rcvars == <<init_call, workers>>
srvars == <<registry, reg_query, health, ctvars, rcvars>>

----------------------------------------------------------------------------
(* Bounds of the model *)

MaxTicks == 4        \* clock ticks explored
MaxConstruct == 3    \* DocumentConverter() calls explored
NumCalls == 2        \* convert() call slots
MaxRegistered == 3   \* converters registered
MaxGets == 3         \* get() calls per service type since its registration
MaxRegistrations == 2 \* register_* calls per service type
MaxInstances == 4    \* service instances created

(* Program constants *)

HealthCheckInterval == 300
DefaultTimeout == 300
MaxFileSize == 100 * 1024 * 1024
NoHandle == 0

TickStep == HealthCheckInterval \div 3
StartTime == 10 * TickStep
MaxTime == StartTime + MaxTicks * TickStep

Range(s) == {s[i] : i \in 1..Len(s)}

----------------------------------------------------------------------------
(* Exceptions: a type and a message; str(e) is the message *)

NoExc == [type |-> "none", msg |-> << >>]

Raise(type, msg) == [type |-> type, msg |-> msg]

Raised(e) == e.type # "none"

\* the exception classes caught by "except Exception"
IsException(e) == e.type \in {"ValidationError", "ConversionError", "ProcessingError",
                              "OSError", "Exception"}

\* what the external engine's constructor and the verification body report
ConstructFault == <<"Initialization failed">>
VerifyFault == <<"Model not responsive">>

----------------------------------------------------------------------------
(* ModelManager *)

ModelManagerNew ==
    [converter |-> NoHandle, initialized |-> FALSE, last_health_check |-> 0]

\* _verify_model_functionality: raises ProcessingError when the handle is
\* absent or when the check in its body fails (responsive = FALSE).
VerifyModelFunctionality(m, responsive) ==
    IF m.converter = NoHandle
    THEN Raise("ProcessingError",
               <<"AI model verification failed: ", "Document converter not available">>)
    ELSE IF ~responsive
    THEN Raise("ProcessingError", <<"AI model verification failed: ">> \o VerifyFault)
    ELSE NoExc

\* initialize(), lines 58-78: built says whether DocumentConverter() returns
\* (the new handle is fresh) or raises; responsive is the verification's answer.
ConstructAndVerify(m, built, responsive, fresh) ==
    IF ~built
    THEN [m |-> m, constructs |-> 1, verifies |-> 0,
          exc |-> Raise("ConversionError",
                        <<"AI model initialization failed: ">> \o ConstructFault)]
    ELSE LET m1 == [m EXCEPT !.converter = fresh]
             v  == VerifyModelFunctionality(m1, responsive)
         IN  IF Raised(v)
             THEN [m |-> m1, constructs |-> 1, verifies |-> 1,
                   exc |-> Raise("ConversionError",
                                 <<"AI model initialization failed: ">> \o v.msg)]
             ELSE [m |-> [m1 EXCEPT !.initialized = TRUE],
                   constructs |-> 1, verifies |-> 1, exc |-> NoExc]

\* mutant of Initialize: the already-initialized check is missing
Initialize_NoGuard(m, built, responsive, fresh) ==
    ConstructAndVerify(m, built, responsive, fresh)

Initialize(m, built, responsive, fresh) ==
    IF m.initialized
    THEN [m |-> m, constructs |-> 0, verifies |-> 0, exc |-> NoExc]
    ELSE ConstructAndVerify(m, built, responsive, fresh)

\* mutant of GetConverter: the manager is not initialized first
GetConverter_NoInit(m, built, responsive, fresh) ==
    IF m.converter = NoHandle
    THEN [m |-> m, constructs |-> 0, verifies |-> 0, ret |-> NoHandle,
          exc |-> Raise("ConversionError", <<"Document converter not available">>)]
    ELSE [m |-> m, constructs |-> 0, verifies |-> 0, ret |-> m.converter, exc |-> NoExc]

\* get_converter()
GetConverter(m, built, responsive, fresh) ==
    LET i == IF ~m.initialized
             THEN Initialize(m, built, responsive, fresh)
             ELSE [m |-> m, constructs |-> 0, verifies |-> 0, exc |-> NoExc]
    IN  IF Raised(i.exc)
        THEN [m |-> i.m, constructs |-> i.constructs, verifies |-> i.verifies,
              ret |-> NoHandle, exc |-> i.exc]
        ELSE IF i.m.converter = NoHandle
        THEN [m |-> i.m, constructs |-> i.constructs, verifies |-> i.verifies,
              ret |-> NoHandle,
              exc |-> Raise("ConversionError", <<"Document converter not available">>)]
        ELSE [m |-> i.m, constructs |-> i.constructs, verifies |-> i.verifies,
              ret |-> i.m.converter, exc |-> NoExc]

\* mutant of HealthCheck: inside the interval the answer is always true
HealthCheck_ThrottledTrue(m, current_time, responsive) ==
    IF (current_time - m.last_health_check) < HealthCheckInterval
    THEN [m |-> m, verifies |-> 0, ret |-> TRUE]
    ELSE IF ~m.initialized \/ m.converter = NoHandle
    THEN [m |-> m, verifies |-> 0, ret |-> FALSE]
    ELSE LET v == VerifyModelFunctionality(m, responsive)
         IN  [m |-> [m EXCEPT !.last_health_check = current_time],
              verifies |-> 1, ret |-> ~Raised(v)]

\* mutant of HealthCheck: the timestamp is set only when verification passes
HealthCheck_StampsOnPass(m, current_time, responsive) ==
    IF (current_time - m.last_health_check) < HealthCheckInterval
    THEN [m |-> m, verifies |-> 0,
          ret |-> (m.initialized /\ m.converter # NoHandle)]
    ELSE IF ~m.initialized \/ m.converter = NoHandle
    THEN [m |-> m, verifies |-> 0, ret |-> FALSE]
    ELSE LET v == VerifyModelFunctionality(m, responsive)
         IN  [m |-> IF Raised(v) THEN m
                    ELSE [m EXCEPT !.last_health_check = current_time],
              verifies |-> 1, ret |-> ~Raised(v)]

\* mutant of HealthCheck: a failed verification marks the manager uninitialized
HealthCheck_Demotes(m, current_time, responsive) ==
    IF (current_time - m.last_health_check) < HealthCheckInterval
    THEN [m |-> m, verifies |-> 0,
          ret |-> (m.initialized /\ m.converter # NoHandle)]
    ELSE IF ~m.initialized \/ m.converter = NoHandle
    THEN [m |-> m, verifies |-> 0, ret |-> FALSE]
    ELSE LET v == VerifyModelFunctionality(m, responsive)
         IN  [m |-> [m EXCEPT !.last_health_check = current_time,
                              !.initialized = ~Raised(v)],
              verifies |-> 1, ret |-> ~Raised(v)]

\* health_check()
HealthCheck(m, current_time, responsive) ==
    IF (current_time - m.last_health_check) < HealthCheckInterval
    THEN [m |-> m, verifies |-> 0,
          ret |-> (m.initialized /\ m.converter # NoHandle)]
    ELSE IF ~m.initialized \/ m.converter = NoHandle
    THEN [m |-> m, verifies |-> 0, ret |-> FALSE]
    ELSE LET v == VerifyModelFunctionality(m, responsive)
         IN  [m |-> [m EXCEPT !.last_health_check = current_time],
              verifies |-> 1, ret |-> ~Raised(v)]

\* mutant of Cleanup: the last-check timestamp is reset with the handle
Cleanup_ResetsTimestamp(m) ==
    [m EXCEPT !.converter = NoHandle, !.initialized = FALSE, !.last_health_check = 0]

\* mutant of Cleanup: the initialized flag is not cleared
Cleanup_KeepsFlag(m) == [m EXCEPT !.converter = NoHandle]

\* mutant of Cleanup: the handle is not dropped
Cleanup_KeepsHandle(m) == [m EXCEPT !.initialized = FALSE]

\* cleanup()
Cleanup(m) == [m EXCEPT !.converter = NoHandle, !.initialized = FALSE]

----------------------------------------------------------------------------
(* Calls made directly on the manager, with a record of the last two *)

CallRecord(op, pre, post, exc, ret_handle, ret_bool, constructs, verifies) ==
    [op |-> op, pre |-> pre, post |-> post, exc |-> exc,
     ret_handle |-> ret_handle, ret_bool |-> ret_bool,
     constructs |-> constructs, verifies |-> verifies, at |-> now]

Remember(rec) ==
    mm_calls' = IF Len(mm_calls) < 2 THEN Append(mm_calls, rec)
                ELSE <<mm_calls[2], rec>>

CanConstruct(n) == construct_calls + n <= MaxConstruct

MMInitialize ==
    \E built \in BOOLEAN, responsive \in BOOLEAN :
        LET r == Initialize(model_manager, built, responsive, construct_calls + 1)
        IN  /\ CanConstruct(r.constructs)
            /\ model_manager' = r.m
            /\ construct_calls' = construct_calls + r.constructs
            /\ Remember(CallRecord("initialize", model_manager, r.m, r.exc,
                                   NoHandle, FALSE, r.constructs, r.verifies))
            /\ UNCHANGED <<now, cvvars, srvars>>

MMGetConverter ==
    \E built \in BOOLEAN, responsive \in BOOLEAN :
        LET r == GetConverter(model_manager, built, responsive, construct_calls + 1)
        IN  /\ CanConstruct(r.constructs)
            /\ model_manager' = r.m
            /\ construct_calls' = construct_calls + r.constructs
            /\ Remember(CallRecord("get_converter", model_manager, r.m, r.exc,
                                   r.ret, FALSE, r.constructs, r.verifies))
            /\ UNCHANGED <<now, cvvars, srvars>>

MMHealthCheck ==
    \E responsive \in BOOLEAN :
        LET r == HealthCheck(model_manager, now, responsive)
        IN  /\ model_manager' = r.m
            /\ Remember(CallRecord("health_check", model_manager, r.m, NoExc,
                                   NoHandle, r.ret, 0, r.verifies))
            /\ UNCHANGED <<now, construct_calls, cvvars, srvars>>

MMCleanup ==
    LET m == Cleanup(model_manager)
    IN  /\ model_manager' = m
        /\ Remember(CallRecord("cleanup", model_manager, m, NoExc,
                               NoHandle, FALSE, 0, 0))
        /\ UNCHANGED <<now, construct_calls, cvvars, srvars>>

----------------------------------------------------------------------------
(* Strings of characters: file names, suffixes, formats, markdown text *)

LowerChar(ch) ==
    CASE ch = "P" -> "p" [] ch = "D" -> "d" [] ch = "F" -> "f"
      [] ch = "M" -> "m" [] OTHER -> ch

\* str.lower()
Lower(s) == [i \in 1..Len(s) |-> LowerChar(s[i])]

\* str.lstrip(ch)
RECURSIVE LStrip(_, _)
LStrip(s, ch) == IF Len(s) > 0 /\ Head(s) = ch THEN LStrip(Tail(s), ch) ELSE s

IsSpace(ch) == ch \in {" ", "\n", "\t"}

RECURSIVE LStripSpace(_)
LStripSpace(s) == IF Len(s) > 0 /\ IsSpace(Head(s)) THEN LStripSpace(Tail(s)) ELSE s

RECURSIVE RStripSpace(_)
RStripSpace(s) ==
    IF Len(s) > 0 /\ IsSpace(s[Len(s)]) THEN RStripSpace(SubSeq(s, 1, Len(s) - 1)) ELSE s

\* str.strip()
Strip(s) == RStripSpace(LStripSpace(s))

\* Path.suffix of a file name: from the last dot on, unless that dot is the
\* first or the last character of the name
PathSuffix(name) ==
    LET dots == {i \in 1..Len(name) : name[i] = "."}
        last == IF dots = {} THEN 0 ELSE CHOOSE i \in dots : \A j \in dots : j <= i
    IN  IF 1 < last /\ last < Len(name) THEN SubSeq(name, last, Len(name)) ELSE << >>

----------------------------------------------------------------------------
(* ConversionResult, ConversionOptions, the inputs of convert() *)

None == [some |-> FALSE, val |-> << >>]
Some(v) == [some |-> TRUE, val |-> v]

\* ConversionMetadata(): no field set
NoMetadata == [title |-> None, page_count |-> None, extraction_error |-> None]

ConversionResult(success, markdown_content, seconds, converter_used, error_message) ==
    [success |-> success, markdown_content |-> markdown_content,
     metadata |-> NoMetadata, extracted_images |-> << >>, hyperlinks |-> << >>,
     processing_time_seconds |-> seconds,
     converter_used |-> converter_used, error_message |-> error_message]

\* placeholder of a call that has returned nothing yet
NoResult == ConversionResult(FALSE, << >>, 0, << >>, None)

Timeouts == {TickStep, DefaultTimeout}
Options == [timeout_seconds : Timeouts, extract_images : BOOLEAN]

\* the options with extract_images at its default
ImageOptions == {o \in Options : o.extract_images}

FileNames ==
    { <<"d", ".", "p", "d", "f">>, <<"d", ".", "P", "D", "F">>, <<"d", ".", "m", "d">>,
      <<"d", ".", "x", "y", "z">>, <<".", "p", "d", "f">> }

\* a path and what the filesystem holds there
Files ==
    { f \in [name : FileNames, exists : BOOLEAN, is_file : BOOLEAN,
             size : {0, MaxFileSize, MaxFileSize + 1}] :
        /\ (~f.exists => ~f.is_file)
        /\ (~f.is_file => f.size = 0)
        /\ (f.is_file => f.size # 0) }

\* output directories: mkdir(parents=True, exist_ok=True) raises on "blocked"
OutDirs == {"out", "blocked"}

\* the converters: DoclingConverter and the subclass of the unit tests
Converters == {"DoclingAI", "MockConverter"}

SupportedFormats(conv) ==
    IF conv = "DoclingAI"
    THEN { <<"p", "d", "f">>, <<"d", "o", "c", "x">>, <<"p", "p", "t", "x">>,
           <<"h", "t", "m", "l">>, <<"t", "x", "t">>, <<"m", "d">> }
    ELSE { <<"p", "d", "f">>, <<"t", "x", "t">> }

Name(conv) == <<conv>>

----------------------------------------------------------------------------
(* BaseConverter *)

\* can_convert(file_path)
CanConvert(conv, f) ==
    IF ~f.exists THEN FALSE
    ELSE LStrip(Lower(PathSuffix(f.name)), ".") \in SupportedFormats(conv)

\* mutant of ValidateInput: the format is checked before the path
ValidateInput_FormatFirst(conv, f) ==
    IF ~CanConvert(conv, f)
    THEN Raise("ValidationError", <<"Unsupported file format: ">> \o PathSuffix(f.name))
    ELSE IF ~f.exists
    THEN Raise("ValidationError", <<"File does not exist: ">> \o f.name)
    ELSE IF ~f.is_file
    THEN Raise("ValidationError", <<"Path is not a file: ">> \o f.name)
    ELSE IF f.size > MaxFileSize
    THEN Raise("ValidationError",
               <<"File too large: ", ToString(f.size), " bytes (max: ",
                 ToString(MaxFileSize), ")">>)
    ELSE NoExc

\* mutant of ValidateInput: the size is checked before the format
ValidateInput_SizeFirst(conv, f) ==
    IF ~f.exists
    THEN Raise("ValidationError", <<"File does not exist: ">> \o f.name)
    ELSE IF ~f.is_file
    THEN Raise("ValidationError", <<"Path is not a file: ">> \o f.name)
    ELSE IF f.size > MaxFileSize
    THEN Raise("ValidationError",
               <<"File too large: ", ToString(f.size), " bytes (max: ",
                 ToString(MaxFileSize), ")">>)
    ELSE IF ~CanConvert(conv, f)
    THEN Raise("ValidationError", <<"Unsupported file format: ">> \o PathSuffix(f.name))
    ELSE NoExc

\* mutant of ValidateInput: a file of exactly the maximum size is rejected
ValidateInput_Inclusive(conv, f) ==
    IF ~f.exists
    THEN Raise("ValidationError", <<"File does not exist: ">> \o f.name)
    ELSE IF ~f.is_file
    THEN Raise("ValidationError", <<"Path is not a file: ">> \o f.name)
    ELSE IF ~CanConvert(conv, f)
    THEN Raise("ValidationError", <<"Unsupported file format: ">> \o PathSuffix(f.name))
    ELSE IF f.size >= MaxFileSize
    THEN Raise("ValidationError",
               <<"File too large: ", ToString(f.size), " bytes (max: ",
                 ToString(MaxFileSize), ")">>)
    ELSE NoExc

\* validate_input(file_path, options)
ValidateInput(conv, f) ==
    IF ~f.exists
    THEN Raise("ValidationError", <<"File does not exist: ">> \o f.name)
    ELSE IF ~f.is_file
    THEN Raise("ValidationError", <<"Path is not a file: ">> \o f.name)
    ELSE IF ~CanConvert(conv, f)
    THEN Raise("ValidationError", <<"Unsupported file format: ">> \o PathSuffix(f.name))
    ELSE IF f.size > MaxFileSize
    THEN Raise("ValidationError",
               <<"File too large: ", ToString(f.size), " bytes (max: ",
                 ToString(MaxFileSize), ")">>)
    ELSE NoExc

\* output_dir.mkdir(parents=True, exist_ok=True)
Mkdir(out) == IF out = "blocked" THEN Raise("OSError", <<"Permission denied">>) ELSE NoExc

\* mutant of FailureResult: the failed result carries no message
FailureResult_NoMessage(conv, elapsed, msg) ==
    ConversionResult(FALSE, << >>, elapsed, Name(conv), None)

\* the failed ConversionResult built in each except clause of convert()
FailureResult(conv, elapsed, msg) ==
    ConversionResult(FALSE, << >>, elapsed, Name(conv), Some(msg))

TimeoutMessage(options) ==
    <<"Conversion timed out after ", ToString(options.timeout_seconds), " seconds">>

\* mutant of HandleException: no "except Exception" clause
HandleException_NoCatchAll(e, conv, options, elapsed) ==
    IF e.type = "TimeoutError"
    THEN [escaped |-> NoExc,
          result |-> FailureResult(conv, elapsed, TimeoutMessage(options))]
    ELSE IF e.type \in {"ValidationError", "ConversionError"}
    THEN [escaped |-> NoExc, result |-> FailureResult(conv, elapsed, e.msg)]
    ELSE [escaped |-> e, result |-> NoResult]

\* mutant of HandleException: a timeout is reported as an unexpected error
HandleException_NoTimeoutClause(e, conv, options, elapsed) ==
    IF e.type \in {"ValidationError", "ConversionError"}
    THEN [escaped |-> NoExc, result |-> FailureResult(conv, elapsed, e.msg)]
    ELSE [escaped |-> NoExc,
          result |-> FailureResult(conv, elapsed,
                                   <<"Unexpected error during conversion: ">> \o e.msg)]

\* mutant of HandleException: typed errors fall through to the catch-all
HandleException_WrapsTyped(e, conv, options, elapsed) ==
    IF e.type = "TimeoutError"
    THEN [escaped |-> NoExc,
          result |-> FailureResult(conv, elapsed, TimeoutMessage(options))]
    ELSE [escaped |-> NoExc,
          result |-> FailureResult(conv, elapsed,
                                   <<"Unexpected error during conversion: ">> \o e.msg)]

\* the except clauses of convert(), in their order
HandleException(e, conv, options, elapsed) ==
    IF e.type = "TimeoutError"
    THEN [escaped |-> NoExc,
          result |-> FailureResult(conv, elapsed, TimeoutMessage(options))]
    ELSE IF e.type = "ValidationError"
    THEN [escaped |-> NoExc, result |-> FailureResult(conv, elapsed, e.msg)]
    ELSE IF e.type = "ConversionError"
    THEN [escaped |-> NoExc, result |-> FailureResult(conv, elapsed, e.msg)]
    ELSE IF IsException(e)
    THEN [escaped |-> NoExc,
          result |-> FailureResult(conv, elapsed,
                                   <<"Unexpected error during conversion: ">> \o e.msg)]
    ELSE [escaped |-> e, result |-> NoResult]

\* mutant of StampResult: the delegate's converter_used is kept
StampResult_KeepsConverter(r, conv, elapsed) ==
    [r EXCEPT !.processing_time_seconds = elapsed]

\* convert() after the delegate returned: timing and converter are stamped
StampResult(r, conv, elapsed) ==
    [r EXCEPT !.processing_time_seconds = elapsed, !.converter_used = Name(conv)]

----------------------------------------------------------------------------
(* The delegates (_convert_document) *)

\* what a subclass's delegate may do: return its result, raise, or not finish
DelegateBehaviours ==
    {"return", "raise_validation", "raise_conversion", "raise_other", "hang"}

DelegateException(b) ==
    IF b = "raise_validation" THEN Raise("ValidationError", <<"Invalid document">>)
    ELSE IF b = "raise_conversion" THEN Raise("ConversionError", <<"Conversion failed">>)
    ELSE IF b = "raise_timeout" THEN Raise("TimeoutError", <<"Read timed out">>)
    ELSE Raise("Exception", <<"Something broke">>)

\* MockConverter._convert_document's result
MockResult == ConversionResult(TRUE, <<"# Mock Content">>, 0, Name("MockConverter"), None)

\* mutant of InitializeConverter: the engine is set up for every conversion
InitializeConverter_Eager(ci, m, built, responsive, fresh) ==
    LET r == ConstructAndVerify(m, built, responsive, fresh)
    IN  IF Raised(r.exc)
        THEN [ci |-> ci, m |-> r.m, constructs |-> r.constructs,
              exc |-> Raise("ConversionError",
                            <<"AI converter initialization failed: ">> \o r.exc.msg)]
        ELSE [ci |-> TRUE, m |-> r.m, constructs |-> r.constructs, exc |-> NoExc]

\* mutant of InitializeConverter: the flag is set before the manager is
\* initialized
InitializeConverter_FlagFirst(ci, m, built, responsive, fresh) ==
    IF ci
    THEN [ci |-> ci, m |-> m, constructs |-> 0, exc |-> NoExc]
    ELSE LET r == Initialize(m, built, responsive, fresh)
         IN  IF Raised(r.exc)
             THEN [ci |-> TRUE, m |-> r.m, constructs |-> r.constructs,
                   exc |-> Raise("ConversionError",
                                 <<"AI converter initialization failed: ">> \o r.exc.msg)]
             ELSE [ci |-> TRUE, m |-> r.m, constructs |-> r.constructs, exc |-> NoExc]

\* DoclingConverter._initialize_converter()
InitializeConverter(ci, m, built, responsive, fresh) ==
    IF ci
    THEN [ci |-> ci, m |-> m, constructs |-> 0, exc |-> NoExc]
    ELSE LET r == Initialize(m, built, responsive, fresh)
         IN  IF Raised(r.exc)
             THEN [ci |-> ci, m |-> r.m, constructs |-> r.constructs,
                   exc |-> Raise("ConversionError",
                                 <<"AI converter initialization failed: ">> \o r.exc.msg)]
             ELSE [ci |-> TRUE, m |-> r.m, constructs |-> r.constructs, exc |-> NoExc]

\* DoclingConverter._convert_document up to the engine call handed to a thread
DoclingBegin(ci, m, built, responsive, fresh) ==
    LET i == InitializeConverter(ci, m, built, responsive, fresh)
    IN  IF Raised(i.exc)
        THEN [ci |-> i.ci, m |-> i.m, constructs |-> i.constructs,
              handle |-> NoHandle, exc |-> i.exc]
        ELSE LET g == GetConverter(i.m, built, responsive, fresh + i.constructs)
             IN  [ci |-> i.ci, m |-> g.m, constructs |-> i.constructs + g.constructs,
                  handle |-> g.ret,
                  exc |-> IF Raised(g.exc)
                          THEN Raise("ConversionError",
                                     <<"AI document conversion failed: ">> \o g.exc.msg)
                          ELSE NoExc]

\* what the engine's result exports: a text, or export_to_markdown() raises
EngineTexts == { << >>, <<" ", "\n">>, <<"#", " ", "T", "\n">> }
\* an image or a link of the engine's result: its attributes can be read
\* ("plain"), or reading one raises ("broken")
ItemLists ==
    { << >>, <<"plain">>, <<"broken">>, <<"plain", "broken">>, <<"broken", "plain">> }

\* the images / links attribute of the engine's result: missing, raising
\* when it is read or iterated, or a list
NoAttr == [attr |-> "absent", items |-> << >>]
Attrs == {NoAttr, [attr |-> "raises", items |-> << >>]}
            \cup [attr : {"list"}, items : ItemLists]

\* the engine's result: what export_to_markdown() gives, and the attributes
\* the auxiliary extraction looks for
EngineDocs ==
    { d \in [exports : BOOLEAN, text : EngineTexts,
             metadata : {"absent", "titled", "raises"},
             pages : {"absent", "sized", "unsized"},
             images : Attrs, links : Attrs] :
        ~d.exports => d.text = << >> }

\* the results that carry nothing but the text
BareDocs ==
    { d \in EngineDocs : /\ d.metadata = "absent" /\ d.pages = "absent"
                         /\ d.images = NoAttr /\ d.links = NoAttr }

ExportFault == <<"Extraction failed">>
EngineFault == <<"Engine failed">>
MetadataFault == <<"Metadata failed">>

\* mutant of ExtractMarkdown: a blank export is returned as it is
ExtractMarkdown_NoPlaceholder(doc) ==
    IF ~doc.exports
    THEN <<"# Conversion Error\n\nFailed to extract content: ">> \o ExportFault
    ELSE doc.text

\* mutant of ExtractMarkdown: the text is stripped before it is returned
ExtractMarkdown_Stripped(doc) ==
    IF ~doc.exports
    THEN <<"# Conversion Error\n\nFailed to extract content: ">> \o ExportFault
    ELSE IF Strip(doc.text) = << >>
    THEN <<"# Document Converted\n\nNo readable content found.">>
    ELSE Strip(doc.text)

\* _extract_markdown(doc_result)
ExtractMarkdown(doc) ==
    IF ~doc.exports
    THEN <<"# Conversion Error\n\nFailed to extract content: ">> \o ExportFault
    ELSE IF Strip(doc.text) = << >>
    THEN <<"# Document Converted\n\nNo readable content found.">>
    ELSE doc.text

\* _extract_metadata(doc_result)
ExtractMetadata(doc) ==
    IF doc.metadata = "raises" \/ doc.pages = "unsized"
    THEN [title |-> None, page_count |-> None,
          extraction_error |-> Some(MetadataFault)]
    ELSE [title |-> IF doc.metadata = "titled" THEN Some(<<"T">>) ELSE None,
          page_count |-> IF doc.pages = "sized" THEN Some(<<"2">>) ELSE None,
          extraction_error |-> None]

\* the positions of the items whose attributes can be read
Readable(items) ==
    SelectSeq([i \in 1..Len(items) |-> i], LAMBDA i : items[i] = "plain")

ImagesDir(out) == <<out, "images">>

\* the dict appended for the image at position i
ImageInfo(i) ==
    [filename |-> <<"image_", ToString(i), ".png">>,
     path |-> <<"images/", "image_", ToString(i), ".png">>,
     page_number |-> Some(<<ToString(i)>>)]

\* mutant of ExtractImages: the images directory is made before the option
\* is looked at
ExtractImages_DirFirst(doc, out, options, dir_ok) ==
    IF ~dir_ok THEN [list |-> << >>, dirs |-> {}, reads |-> FALSE]
    ELSE IF ~options.extract_images
    THEN [list |-> << >>, dirs |-> {ImagesDir(out)}, reads |-> FALSE]
    ELSE IF doc.images.attr = "raises"
    THEN [list |-> << >>, dirs |-> {ImagesDir(out)}, reads |-> TRUE]
    ELSE [list |-> [k \in 1..Len(Readable(doc.images.items)) |->
                        ImageInfo(Readable(doc.images.items)[k])],
          dirs |-> {ImagesDir(out)}, reads |-> TRUE]

\* _extract_images(doc_result, output_dir, options): the list returned, the
\* directories created and whether doc_result.images was looked at; dir_ok
\* tells whether images_dir.mkdir succeeds
ExtractImages(doc, out, options, dir_ok) ==
    IF ~options.extract_images THEN [list |-> << >>, dirs |-> {}, reads |-> FALSE]
    ELSE IF ~dir_ok THEN [list |-> << >>, dirs |-> {}, reads |-> FALSE]
    ELSE IF doc.images.attr = "raises"
    THEN [list |-> << >>, dirs |-> {ImagesDir(out)}, reads |-> TRUE]
    ELSE [list |-> [k \in 1..Len(Readable(doc.images.items)) |->
                        ImageInfo(Readable(doc.images.items)[k])],
          dirs |-> {ImagesDir(out)}, reads |-> TRUE]

\* the dict appended for the link at position i
LinkInfo(i) ==
    [text |-> <<"link_", ToString(i)>>, url |-> <<"http://", ToString(i)>>,
     page_number |-> Some(<<ToString(i)>>)]

\* _extract_hyperlinks(doc_result)
ExtractHyperlinks(doc) ==
    IF doc.links.attr = "raises" THEN << >>
    ELSE [k \in 1..Len(Readable(doc.links.items)) |->
              LinkInfo(Readable(doc.links.items)[k])]

\* mutant of DoclingFinish: a failure of the auxiliary extraction is raised
DoclingFinish_AuxiliaryFatal(engine_ok, doc, conversion_time, out, options, dir_ok) ==
    IF \/ ~engine_ok
       \/ doc.metadata = "raises"
       \/ doc.images.attr = "raises" /\ options.extract_images
       \/ doc.links.attr = "raises"
    THEN [exc |-> Raise("ConversionError",
                        <<"AI document conversion failed: ">> \o EngineFault),
          result |-> NoResult, dirs |-> {}]
    ELSE LET images == ExtractImages(doc, out, options, dir_ok)
         IN  [exc |-> NoExc,
              result |-> [ConversionResult(TRUE, ExtractMarkdown(doc), conversion_time,
                                           Name("DoclingAI"), None)
                            EXCEPT !.metadata = ExtractMetadata(doc),
                                   !.extracted_images = images.list,
                                   !.hyperlinks = ExtractHyperlinks(doc)],
              dirs |-> images.dirs]

\* DoclingConverter._convert_document after the engine call: the engine
\* raised (engine_ok = FALSE) or returned doc
DoclingFinish(engine_ok, doc, conversion_time, out, options, dir_ok) ==
    IF ~engine_ok
    THEN [exc |-> Raise("ConversionError",
                        <<"AI document conversion failed: ">> \o EngineFault),
          result |-> NoResult, dirs |-> {}]
    ELSE LET images == ExtractImages(doc, out, options, dir_ok)
         IN  [exc |-> NoExc,
              result |-> [ConversionResult(TRUE, ExtractMarkdown(doc), conversion_time,
                                           Name("DoclingAI"), None)
                            EXCEPT !.metadata = ExtractMetadata(doc),
                                   !.extracted_images = images.list,
                                   !.hyperlinks = ExtractHyperlinks(doc)],
              dirs |-> images.dirs]

----------------------------------------------------------------------------
(* convert(): one call, from its start to its return *)

\* placeholder of the engine's result in a call the engine has not answered
NoDoc == [exports |-> FALSE, text |-> << >>, metadata |-> "absent", pages |-> "absent",
          images |-> NoAttr, links |-> NoAttr]

CallNew(conv, f, out, options) ==
    [pc |-> "idle", conv |-> conv, file |-> f, out |-> out, options |-> options,
     start_time |-> 0, wait_start |-> 0, conversion_start |-> 0,
     handle |-> NoHandle, engine |-> "none", doc |-> NoDoc,
     outcome |-> "none", cause |-> NoExc, raw |-> NoResult,
     escaped |-> NoExc, result |-> NoResult]

Returned(cl, outcome, r) ==
    [cl EXCEPT !.pc = "done", !.outcome = outcome, !.result = r.result,
               !.escaped = r.escaped, !.start_time = 0, !.wait_start = 0,
               !.conversion_start = 0]

\* convert() returns through one of its except clauses: e is what was raised
\* inside its try block
Failed(cl, outcome, e, elapsed) ==
    Returned([cl EXCEPT !.cause = e], outcome,
             HandleException(e, cl.conv, cl.options, elapsed))

Awaiting(c) == call[c].pc \in {"scheduled", "in_thread", "hung"}

DeadlineReached(c) == now - call[c].wait_start >= call[c].options.timeout_seconds

\* mutant of ConvertStartFrom: the output directory is created before the
\* input is validated
ConvertStartFrom_MkdirFirst(c, convs, files, outs, opts) ==
    /\ call[c].pc \in {"idle", "done"}
    /\ \E conv \in convs, f \in files, out \in outs, options \in opts :
        LET cl == [CallNew(conv, f, out, options) EXCEPT !.start_time = now]
            v  == ValidateInput(conv, f)
            d  == Mkdir(out)
        IN  IF Raised(d)
            THEN /\ call' = [call EXCEPT ![c] =
                        Failed(cl, "mkdir_failed", d, 0)]
                 /\ UNCHANGED created_dirs
            ELSE IF Raised(v)
            THEN /\ call' = [call EXCEPT ![c] =
                        Failed(cl, "invalid", v, 0)]
                 /\ created_dirs' = created_dirs \cup {<<out>>}
            ELSE /\ call' = [call EXCEPT ![c] =
                        [cl EXCEPT !.pc = "scheduled", !.wait_start = now]]
                 /\ created_dirs' = created_dirs \cup {<<out>>}
    /\ UNCHANGED <<now, mmvars, conv_initialized, cleanup_log, srvars>>

\* convert() up to the await of wait_for, its arguments drawn from the
\* given sets
ConvertStartFrom(c, convs, files, outs, opts) ==
    /\ call[c].pc \in {"idle", "done"}
    /\ \E conv \in convs, f \in files, out \in outs, options \in opts :
        LET cl == [CallNew(conv, f, out, options) EXCEPT !.start_time = now]
            v  == ValidateInput(conv, f)
            d  == Mkdir(out)
        IN  IF Raised(v)
            THEN /\ call' = [call EXCEPT ![c] =
                        Failed(cl, "invalid", v, 0)]
                 /\ UNCHANGED created_dirs
            ELSE IF Raised(d)
            THEN /\ call' = [call EXCEPT ![c] =
                        Failed(cl, "mkdir_failed", d, 0)]
                 /\ UNCHANGED created_dirs
            ELSE /\ call' = [call EXCEPT ![c] =
                        [cl EXCEPT !.pc = "scheduled", !.wait_start = now]]
                 /\ created_dirs' = created_dirs \cup {<<out>>}
    /\ UNCHANGED <<now, mmvars, conv_initialized, cleanup_log, srvars>>

ConvertStart(c) == ConvertStartFrom(c, Converters, Files, OutDirs, ImageOptions)

\* the delegate runs up to its first suspension; a delegate other than the
\* DoclingConverter's behaves in one of the given ways and, when it returns,
\* returns one of the given results; DocumentConverter() and the
\* verification answer in one of the given ways
DelegateStartIn(c, behaviours, results, builds, responses) ==
    /\ call[c].pc = "scheduled"
    /\ ~DeadlineReached(c)
    /\ LET cl == call[c]
           elapsed == now - cl.start_time
       IN  IF cl.conv = "DoclingAI"
           THEN \E built \in builds, responsive \in responses :
                  LET b == DoclingBegin(conv_initialized, model_manager, built,
                                        responsive, construct_calls + 1)
                  IN  /\ CanConstruct(b.constructs)
                      /\ model_manager' = b.m
                      /\ conv_initialized' = b.ci
                      /\ construct_calls' = construct_calls + b.constructs
                      /\ call' = [call EXCEPT ![c] =
                            IF Raised(b.exc)
                            THEN Failed(cl, "raised", b.exc, elapsed)
                            ELSE [cl EXCEPT !.pc = "in_thread", !.handle = b.handle,
                                            !.conversion_start = now]]
           ELSE /\ \E b \in behaviours, raw \in results :
                    call' = [call EXCEPT ![c] =
                        IF b = "return"
                        THEN Returned([cl EXCEPT !.raw = raw], "returned",
                                 [escaped |-> NoExc,
                                  result |-> StampResult(raw, cl.conv, elapsed)])
                        ELSE IF b = "hang"
                        THEN [cl EXCEPT !.pc = "hung"]
                        ELSE Failed(cl, "raised", DelegateException(b), elapsed)]
                /\ UNCHANGED <<model_manager, conv_initialized, construct_calls>>
    /\ UNCHANGED <<now, mm_calls, created_dirs, cleanup_log, srvars>>

DelegateStartFrom(c, behaviours, results) ==
    DelegateStartIn(c, behaviours, results, BOOLEAN, BOOLEAN)

DelegateStart(c) == DelegateStartFrom(c, DelegateBehaviours, {MockResult})

\* mutant of EngineReturnFrom: the converter keeps the engine's result in an
\* attribute of its own, which a conversion in flight overwrites
EngineReturnFrom_SharedResult(c, docs, dir_oks) ==
    /\ call[c].pc = "in_thread"
    /\ ~DeadlineReached(c)
    /\ \E engine_ok \in BOOLEAN, doc \in docs, dir_ok \in dir_oks :
        LET cl == call[c]
            elapsed == now - cl.start_time
            others == {o \in 1..NumCalls : o # c /\ call[o].pc = "in_thread"}
            kept == IF others = {} THEN doc ELSE NoDoc
            d == DoclingFinish(engine_ok, kept, now - cl.conversion_start,
                               cl.out, cl.options, dir_ok)
            answered == IF engine_ok THEN "returned" ELSE "raised"
            answer == IF engine_ok THEN doc ELSE NoDoc
        IN  /\ call' = [call EXCEPT ![c] =
                  IF Raised(d.exc)
                  THEN Failed([cl EXCEPT !.engine = answered, !.doc = answer],
                              "raised", d.exc, elapsed)
                  ELSE Returned([cl EXCEPT !.engine = answered, !.doc = answer],
                           "returned",
                           [escaped |-> NoExc,
                            result |-> StampResult(d.result, cl.conv, elapsed)])]
            /\ created_dirs' = created_dirs \cup d.dirs
    /\ UNCHANGED <<now, mmvars, conv_initialized, cleanup_log, srvars>>

\* the engine call in the worker thread ends before the timeout: the engine
\* raises or returns one of docs, and images_dir.mkdir answers one of dir_oks
EngineReturnFrom(c, docs, dir_oks) ==
    /\ call[c].pc = "in_thread"
    /\ ~DeadlineReached(c)
    /\ \E engine_ok \in BOOLEAN, doc \in docs, dir_ok \in dir_oks :
        LET cl == call[c]
            elapsed == now - cl.start_time
            d == DoclingFinish(engine_ok, doc, now - cl.conversion_start,
                               cl.out, cl.options, dir_ok)
            answered == IF engine_ok THEN "returned" ELSE "raised"
            answer == IF engine_ok THEN doc ELSE NoDoc
        IN  /\ call' = [call EXCEPT ![c] =
                  IF Raised(d.exc)
                  THEN Failed([cl EXCEPT !.engine = answered, !.doc = answer],
                              "raised", d.exc, elapsed)
                  ELSE Returned([cl EXCEPT !.engine = answered, !.doc = answer],
                           "returned",
                           [escaped |-> NoExc,
                            result |-> StampResult(d.result, cl.conv, elapsed)])]
            /\ created_dirs' = created_dirs \cup d.dirs
    /\ UNCHANGED <<now, mmvars, conv_initialized, cleanup_log, srvars>>

EngineReturn(c) == EngineReturnFrom(c, BareDocs, {TRUE})

\* mutant of Timeout: the manager is cleaned up when a conversion times out
Timeout_DropsHandle(c) ==
    /\ Awaiting(c)
    /\ DeadlineReached(c)
    /\ LET cl == call[c]
       IN  call' = [call EXCEPT ![c] =
               Failed(cl, "timeout", Raise("TimeoutError", << >>), now - cl.start_time)]
    /\ model_manager' = Cleanup(model_manager)
    /\ UNCHANGED <<now, construct_calls, mm_calls, conv_initialized, created_dirs,
                   cleanup_log, srvars>>

\* wait_for's timeout expires with the delegate unfinished
Timeout(c) ==
    /\ Awaiting(c)
    /\ DeadlineReached(c)
    /\ LET cl == call[c]
       IN  call' = [call EXCEPT ![c] =
               Failed(cl, "timeout", Raise("TimeoutError", << >>), now - cl.start_time)]
    /\ UNCHANGED <<now, mmvars, conv_initialized, created_dirs, cleanup_log, srvars>>

\* an engine call in a worker thread: whose it is, the handle it runs on,
\* and how it ended
Worker(c, handle, state) == [call |-> c, handle |-> handle, state |-> state]

\* wait_for's timeout expires: the delegate's task is cancelled at its await,
\* the thread that to_thread started keeps running the engine
TimeoutAbandoning(c) ==
    /\ Awaiting(c)
    /\ DeadlineReached(c)
    /\ LET cl == call[c]
       IN  /\ call' = [call EXCEPT ![c] =
                 Failed(cl, "timeout", Raise("TimeoutError", << >>),
                        now - cl.start_time)]
           /\ workers' = IF cl.pc = "in_thread"
                         THEN Append(workers, Worker(c, cl.handle, "running"))
                         ELSE workers
    /\ UNCHANGED <<now, mmvars, conv_initialized, created_dirs, cleanup_log,
                   registry, reg_query, health, ctvars, init_call>>

\* mutant of WorkerFinish: the late result is delivered to the call
WorkerFinish_Delivers ==
    \E i \in DOMAIN workers, engine_ok \in BOOLEAN, doc \in BareDocs :
        LET w == workers[i]
            cl == call[w.call]
            d == DoclingFinish(engine_ok, doc, 0, cl.out, cl.options, TRUE)
        IN  /\ w.state = "running"
            /\ workers' = [workers EXCEPT ![i].state =
                               IF engine_ok THEN "returned" ELSE "raised"]
            /\ call' = [call EXCEPT ![w.call].result =
                           IF Raised(d.exc) THEN @ ELSE d.result]
            /\ UNCHANGED <<now, mmvars, conv_initialized, created_dirs, cleanup_log,
                           registry, reg_query, health, ctvars, init_call>>

\* the engine call of an abandoned worker thread ends: its future was
\* cancelled, so what it returns or raises goes nowhere
WorkerFinish ==
    \E i \in DOMAIN workers, engine_ok \in BOOLEAN :
        LET w == workers[i]
        IN  /\ w.state = "running"
            /\ workers' = [workers EXCEPT ![i].state =
                               IF engine_ok THEN "returned" ELSE "raised"]
            /\ UNCHANGED <<now, mmvars, cvvars,
                           registry, reg_query, health, ctvars, init_call>>

\* DoclingConverter.cleanup()
DoclingCleanup ==
    /\ model_manager' = Cleanup(model_manager)
    /\ conv_initialized' = FALSE
    /\ UNCHANGED <<now, construct_calls, mm_calls, created_dirs, call, cleanup_log, srvars>>

\* the clock advances; a timeout that is due fires before it advances further
Tick ==
    /\ now + TickStep <= MaxTime
    /\ \A c \in 1..NumCalls : Awaiting(c) => ~DeadlineReached(c)
    /\ now' = now + TickStep
    /\ UNCHANGED <<mmvars, cvvars, srvars>>

----------------------------------------------------------------------------
(* ConverterRegistry *)

\* mutant of Register: a converter registered again replaces its earlier entry
Register_Replacing(reg, conv) ==
    Append(SelectSeq(reg, LAMBDA other : other # conv), conv)

\* register(converter)
Register(reg, conv) == Append(reg, conv)

\* the for loop of get_converter, from position i on: the position of the
\* converter it returns, None when it runs off the end of the list
RECURSIVE FirstCapable(_, _, _)
FirstCapable(reg, f, i) ==
    IF i > Len(reg) THEN None
    ELSE IF CanConvert(reg[i], f) THEN Some(i)
    ELSE FirstCapable(reg, f, i + 1)

\* mutant of RegistryGetConverter: the loop does not stop at the first match
RegistryGetConverter_LastMatch(reg, f) ==
    LET hits == {i \in 1..Len(reg) : CanConvert(reg[i], f)}
    IN  IF hits = {} THEN None ELSE Some(CHOOSE i \in hits : \A j \in hits : j <= i)

\* get_converter(file_path)
RegistryGetConverter(reg, f) == FirstCapable(reg, f, 1)

\* the list comprehension of get_converters_for_format: the positions, in
\* list order, of the converters that declare the extension
Declaring(reg, extension) ==
    SelectSeq([i \in 1..Len(reg) |-> i],
              LAMBDA i : extension \in SupportedFormats(reg[i]))

\* mutant of GetConvertersForFormat: the extension is taken as given
GetConvertersForFormat_Raw(reg, file_extension) == Declaring(reg, file_extension)

\* get_converters_for_format(file_extension)
GetConvertersForFormat(reg, file_extension) ==
    Declaring(reg, LStrip(Lower(file_extension), "."))

\* the code points of the characters of the format names, in order
Alphabet ==
    <<"a", "b", "c", "d", "e", "f", "g", "h", "i", "j", "k", "l", "m",
      "n", "o", "p", "q", "r", "s", "t", "u", "v", "w", "x", "y", "z">>

Ord(ch) == CHOOSE i \in 1..Len(Alphabet) : Alphabet[i] = ch

\* str.__lt__: the order sorted() puts strings in
RECURSIVE StrLess(_, _)
StrLess(a, b) ==
    IF Len(b) = 0 THEN FALSE
    ELSE IF Len(a) = 0 THEN TRUE
    ELSE IF Head(a) # Head(b) THEN Ord(Head(a)) < Ord(Head(b))
    ELSE StrLess(Tail(a), Tail(b))

\* the elements of a set, as a list in some order
RECURSIVE Listed(_)
Listed(S) ==
    IF S = {} THEN << >>
    ELSE LET x == CHOOSE y \in S : TRUE IN <<x>> \o Listed(S \ {x})

\* the set built by the loop of list_supported_formats
RECURSIVE FormatsOf(_, _)
FormatsOf(reg, i) ==
    IF i > Len(reg) THEN {} ELSE SupportedFormats(reg[i]) \cup FormatsOf(reg, i + 1)

\* mutant of ListSupportedFormats: the list is sorted the other way round
ListSupportedFormats_Descending(reg) ==
    SortSeq(Listed(FormatsOf(reg, 1)), LAMBDA a, b : StrLess(b, a))

\* list_supported_formats()
ListSupportedFormats(reg) == SortSeq(Listed(FormatsOf(reg, 1)), StrLess)

\* what callers pass as a file extension
Extensions ==
    { <<"p", "d", "f">>, <<".", "p", "d", "f">>, <<"P", "D", "F">>,
      <<".", ".", "M", "d">>, <<"t", "x", "t">>, <<"x", "y", "z">>, << >> }

Query(op, file, extension, found, list) ==
    [op |-> op, reg |-> registry, file |-> file, extension |-> extension,
     found |-> found, list |-> list]

NoFile == CHOOSE f \in Files : ~f.exists

NoQuery == Query("none", NoFile, << >>, None, << >>)

RegRegister ==
    /\ Len(registry) < MaxRegistered
    /\ \E conv \in Converters : registry' = Register(registry, conv)
    /\ UNCHANGED <<now, mmvars, cvvars, reg_query, health, ctvars, rcvars>>

RegGetConverter ==
    /\ \E f \in Files :
        reg_query' = Query("get_converter", f, << >>,
                           RegistryGetConverter(registry, f), << >>)
    /\ UNCHANGED <<now, mmvars, cvvars, registry, health, ctvars, rcvars>>

RegGetConvertersForFormat ==
    /\ \E e \in Extensions :
        reg_query' = Query("get_converters_for_format", NoFile, e, None,
                           GetConvertersForFormat(registry, e))
    /\ UNCHANGED <<now, mmvars, cvvars, registry, health, ctvars, rcvars>>

RegListSupportedFormats ==
    /\ reg_query' = Query("list_supported_formats", NoFile, << >>, None,
                          ListSupportedFormats(registry))
    /\ UNCHANGED <<now, mmvars, cvvars, registry, health, ctvars, rcvars>>

----------------------------------------------------------------------------
(* DoclingConverter.cleanup(), with the manager's cleanup() replaced by a    *)
(* double that may raise, as the unit tests replace it                       *)

\* cleanup(): the flag, the manager and what escapes the method
DoclingConverterCleanup(ci, m, manager_raises) ==
    IF manager_raises
    THEN [ci |-> ci, m |-> m, exc |-> NoExc]
    ELSE [ci |-> FALSE, m |-> Cleanup(m), exc |-> NoExc]

CleanupRecord(manager_raised, before, r) ==
    [called |-> TRUE, manager_raised |-> manager_raised, before |-> before,
     after |-> r.ci, escaped |-> r.exc]

NoCleanup ==
    [called |-> FALSE, manager_raised |-> FALSE, before |-> FALSE,
     after |-> FALSE, escaped |-> NoExc]

DoclingCleanupDoubled ==
    /\ \E manager_raises \in BOOLEAN :
        LET r == DoclingConverterCleanup(conv_initialized, model_manager, manager_raises)
        IN  /\ model_manager' = r.m
            /\ conv_initialized' = r.ci
            /\ cleanup_log' = CleanupRecord(manager_raises, conv_initialized, r)
    /\ UNCHANGED <<now, construct_calls, mm_calls, created_dirs, call, srvars>>

----------------------------------------------------------------------------
(* Health aggregator *)

\* the component statuses, in the order of the components_status dict:
\* server, config, logging, filesystem, converters, ai_models
Statuses == {"healthy", "degraded", "unhealthy", "not_initialized"}

\* what the settings object answers: everything, everything but
\* settings.processing, or nothing
SettingsStates == {"ok", "no_processing", "broken"}

\* _check_config_health()
CheckConfigHealth(settings) == IF settings = "ok" THEN "healthy" ELSE "unhealthy"

\* _check_logging_health()
CheckLoggingHealth(logger_ok) == IF logger_ok THEN "healthy" ELSE "unhealthy"

\* _check_filesystem_health()
CheckFilesystemHealth(settings, writable) ==
    IF settings = "ok" /\ writable THEN "healthy" ELSE "unhealthy"

\* what the try block of _check_ai_models_health can raise before the manager
\* answers: the import failing, or ModelManager() failing
AiFaults == {"none", "ImportError", "Exception"}

\* mutant of CheckAiModelsHealth: the manager asked is the converter's
CheckAiModelsHealth_SharedManager(fault, current_time, responsive) ==
    IF fault = "ImportError" THEN "not_initialized"
    ELSE IF fault = "Exception" THEN "unhealthy"
    ELSE IF HealthCheck(model_manager, current_time, responsive).ret
    THEN "healthy"
    ELSE "degraded"

\* _check_ai_models_health()
CheckAiModelsHealth(fault, current_time, responsive) ==
    IF fault = "ImportError" THEN "not_initialized"
    ELSE IF fault = "Exception" THEN "unhealthy"
    ELSE IF HealthCheck(ModelManagerNew, current_time, responsive).ret
    THEN "healthy"
    ELSE "degraded"

\* mutant of Reduce: the loop goes on after an "unhealthy" component
RECURSIVE Reduce_NoBreak(_, _, _)
Reduce_NoBreak(statuses, i, overall_status) ==
    IF i > Len(statuses) THEN overall_status
    ELSE IF statuses[i] = "unhealthy" THEN Reduce_NoBreak(statuses, i + 1, "unhealthy")
    ELSE IF statuses[i] = "degraded" THEN Reduce_NoBreak(statuses, i + 1, "degraded")
    ELSE Reduce_NoBreak(statuses, i + 1, overall_status)

\* the loop of get_health_status over components_status.values(), from
\* position i on
RECURSIVE Reduce(_, _, _)
Reduce(statuses, i, overall_status) ==
    IF i > Len(statuses) THEN overall_status
    ELSE IF statuses[i] = "unhealthy" THEN "unhealthy"
    ELSE IF statuses[i] = "degraded" THEN Reduce(statuses, i + 1, "degraded")
    ELSE Reduce(statuses, i + 1, overall_status)

\* get_health_status(): raised tells whether building the dicts raised
GetHealthStatus(statuses, raised) ==
    IF raised
    THEN [status |-> "error", components |-> << >>, error |-> TRUE]
    ELSE [status |-> Reduce(statuses, 1, "healthy"), components |-> statuses,
          error |-> FALSE]

\* the loop of health_check() over the components, from position i on
RECURSIVE AllAcceptable(_, _, _)
AllAcceptable(components, i, overall_healthy) ==
    IF i > Len(components) THEN overall_healthy
    ELSE IF components[i] \notin {"healthy", "not_initialized"}
    THEN AllAcceptable(components, i + 1, FALSE)
    ELSE AllAcceptable(components, i + 1, overall_healthy)

\* mutant of ServerHealthCheck: the components are not examined
ServerHealthCheck_StatusOnly(health_status, raised) ==
    IF raised THEN [ret |-> FALSE, exc |-> NoExc]
    ELSE [ret |-> health_status.status \in {"healthy", "degraded"}, exc |-> NoExc]

\* health_check() of the server: raised tells whether get_health_status raised
ServerHealthCheck(health_status, raised) ==
    IF raised THEN [ret |-> FALSE, exc |-> NoExc]
    ELSE [ret |-> AllAcceptable(health_status.components, 1,
                                health_status.status \in {"healthy", "degraded"}),
          exc |-> NoExc]

NoCheck == [ret |-> FALSE, exc |-> NoExc]

Poll(op, doubled, ai_fault, health_status, raised, r) ==
    [op |-> op, doubled |-> doubled, ai_fault |-> ai_fault,
     health_status |-> health_status, status_raised |-> raised,
     ret |-> r.ret, escaped |-> r.exc]

NoPoll == Poll("none", FALSE, "none", GetHealthStatus(<< >>, TRUE), FALSE, NoCheck)

\* the components_status dict as the probes of the program fill it
Probed(settings, logger_ok, writable, ai_fault, responsive) ==
    <<"healthy", CheckConfigHealth(settings), CheckLoggingHealth(logger_ok),
      CheckFilesystemHealth(settings, writable), "not_initialized",
      CheckAiModelsHealth(ai_fault, now, responsive)>>

\* get_health_status() called by the server
GetHealthStatusCall ==
    /\ \E settings \in SettingsStates, logger_ok \in BOOLEAN, writable \in BOOLEAN,
          ai_fault \in AiFaults, responsive \in BOOLEAN :
        health' = Poll("get_health_status", FALSE, ai_fault,
                       GetHealthStatus(Probed(settings, logger_ok, writable,
                                              ai_fault, responsive),
                                       settings = "broken"),
                       FALSE, NoCheck)
    /\ UNCHANGED <<now, mmvars, cvvars, registry, reg_query, ctvars, rcvars>>

\* health_check() called by the server
HealthCheckCall ==
    /\ \E settings \in SettingsStates, logger_ok \in BOOLEAN, writable \in BOOLEAN,
          ai_fault \in AiFaults, responsive \in BOOLEAN :
        LET hs == GetHealthStatus(Probed(settings, logger_ok, writable,
                                         ai_fault, responsive),
                                  settings = "broken")
        IN  health' = Poll("health_check", FALSE, ai_fault, hs, FALSE,
                           ServerHealthCheck(hs, FALSE))
    /\ UNCHANGED <<now, mmvars, cvvars, registry, reg_query, ctvars, rcvars>>

\* the components_status dict with the four probes replaced by doubles that
\* return any status, as the unit tests replace them
Doubled(config, logging, filesystem, ai_models) ==
    <<"healthy", config, logging, filesystem, "not_initialized", ai_models>>

\* get_health_status() over doubled probes; a double may raise
GetHealthStatusDoubled ==
    /\ \/ \E config \in Statuses, logging \in Statuses, filesystem \in Statuses,
             ai_models \in Statuses :
            health' = Poll("get_health_status", TRUE, "none",
                           GetHealthStatus(Doubled(config, logging, filesystem,
                                                   ai_models), FALSE),
                           FALSE, NoCheck)
       \/ health' = Poll("get_health_status", TRUE, "none",
                         GetHealthStatus(<< >>, TRUE), FALSE, NoCheck)
    /\ UNCHANGED <<now, mmvars, cvvars, registry, reg_query, ctvars, rcvars>>

\* health_check() over doubled probes, or over a get_health_status() double
\* that raises
HealthCheckDoubled ==
    /\ \/ \E config \in Statuses, logging \in Statuses, filesystem \in Statuses,
             ai_models \in Statuses :
            LET hs == GetHealthStatus(Doubled(config, logging, filesystem,
                                              ai_models), FALSE)
            IN  health' = Poll("health_check", TRUE, "none", hs, FALSE,
                               ServerHealthCheck(hs, FALSE))
       \/ \E status_raises \in BOOLEAN :
            LET hs == GetHealthStatus(<< >>, TRUE)
            IN  health' = Poll("health_check", TRUE, "none", hs, status_raises,
                               ServerHealthCheck(hs, status_raises))
    /\ UNCHANGED <<now, mmvars, cvvars, registry, reg_query, ctvars, rcvars>>

----------------------------------------------------------------------------
(* The dependency injection container *)

\* the service types of the unit tests, by their keys
ServiceTypes == {"ServiceForTesting", "AnotherService"}

\* a key that a dictionary does not hold
Missing == -1

\* the None that register_singleton stores until the instance is created
NotCreated == 0

ContainerNew ==
    [services   |-> [k \in ServiceTypes |-> Missing],
     factories  |-> [k \in ServiceTypes |-> FALSE],
     singletons |-> [k \in ServiceTypes |-> Missing]]

RegisterInstance(ct, key, instance) ==
    [ct EXCEPT !.services[key] = instance]

RegisterFactory(ct, key) ==
    [ct EXCEPT !.factories[key] = TRUE]

RegisterSingleton(ct, key) ==
    [ct EXCEPT !.factories[key] = TRUE, !.singletons[key] = NotCreated]

FactoryFault == Raise("ValueError", <<"Factory failed">>)

\* self._factories[key](): the factory returns the new instance or raises
CallFactory(creates, fresh) ==
    IF creates THEN [ret |-> fresh, exc |-> NoExc, invoked |-> TRUE]
    ELSE [ret |-> Missing, exc |-> FactoryFault, invoked |-> TRUE]

NotInvoked(ret, exc) == [ret |-> ret, exc |-> exc, invoked |-> FALSE]

\* mutant of ContainerGet: the created singleton is not kept
ContainerGet_NoCache(ct, key, creates, fresh) ==
    IF ct.services[key] # Missing
    THEN [ct |-> ct, out |-> NotInvoked(ct.services[key], NoExc)]
    ELSE IF ct.factories[key]
    THEN [ct |-> ct, out |-> CallFactory(creates, fresh)]
    ELSE [ct |-> ct,
          out |-> NotInvoked(Missing,
                      Raise("ConfigurationError", <<"Service not registered: ", key>>))]

\* get(service_type); the factory, when called, creates the instance fresh
\* or raises
ContainerGet(ct, key, creates, fresh) ==
    IF ct.services[key] # Missing
    THEN [ct |-> ct, out |-> NotInvoked(ct.services[key], NoExc)]
    ELSE IF ct.singletons[key] # Missing
    THEN IF ct.singletons[key] = NotCreated
         THEN IF ~ct.factories[key]
              THEN [ct |-> ct,
                    out |-> NotInvoked(Missing,
                                Raise("ConfigurationError",
                                      <<"No factory registered for ", key>>))]
              ELSE LET made == CallFactory(creates, fresh)
                   IN  IF Raised(made.exc)
                       THEN [ct |-> ct, out |-> made]
                       ELSE [ct |-> [ct EXCEPT !.singletons[key] = made.ret],
                             out |-> made]
         ELSE [ct |-> ct, out |-> NotInvoked(ct.singletons[key], NoExc)]
    ELSE IF ct.factories[key]
    THEN [ct |-> ct, out |-> CallFactory(creates, fresh)]
    ELSE [ct |-> ct,
          out |-> NotInvoked(Missing,
                      Raise("ConfigurationError", <<"Service not registered: ", key>>))]

\* clear()
ContainerClear(ct) == ContainerNew

\* what was done with each service type since the container was created or
\* cleared: the register_* calls, and the get() calls since the last of them
NoResolutions ==
    [regs |-> [k \in ServiceTypes |-> << >>],
     gets |-> [k \in ServiceTypes |-> << >>],
     instances |-> 0]

Registered(key, method) ==
    [resolved EXCEPT !.regs[key] = Append(@, method), !.gets[key] = << >>]

CanRegister(key) == Len(resolved.regs[key]) < MaxRegistrations

CtRegisterInstance ==
    \E key \in ServiceTypes :
        /\ CanRegister(key)
        /\ resolved.instances < MaxInstances
        /\ container' = RegisterInstance(container, key, resolved.instances + 1)
        /\ resolved' = [Registered(key, "instance") EXCEPT !.instances = @ + 1]
        /\ UNCHANGED <<now, mmvars, cvvars, registry, reg_query, health, rcvars>>

CtRegisterFactory ==
    \E key \in ServiceTypes :
        /\ CanRegister(key)
        /\ container' = RegisterFactory(container, key)
        /\ resolved' = Registered(key, "factory")
        /\ UNCHANGED <<now, mmvars, cvvars, registry, reg_query, health, rcvars>>

CtRegisterSingleton ==
    \E key \in ServiceTypes :
        /\ CanRegister(key)
        /\ container' = RegisterSingleton(container, key)
        /\ resolved' = Registered(key, "singleton")
        /\ UNCHANGED <<now, mmvars, cvvars, registry, reg_query, health, rcvars>>

CtGet ==
    \E key \in ServiceTypes, creates \in BOOLEAN :
        LET g == ContainerGet(container, key, creates, resolved.instances + 1)
        IN  /\ Len(resolved.gets[key]) < MaxGets
            /\ resolved.instances < MaxInstances
            /\ container' = g.ct
            /\ resolved' = [resolved EXCEPT
                    !.gets[key] = Append(@, g.out),
                    !.instances = IF g.out.invoked /\ ~Raised(g.out.exc)
                                  THEN @ + 1 ELSE @]
            /\ UNCHANGED <<now, mmvars, cvvars, registry, reg_query, health, rcvars>>

CtClear ==
    /\ container' = ContainerClear(container)
    /\ resolved' = [NoResolutions EXCEPT !.instances = resolved.instances]
    /\ UNCHANGED <<now, mmvars, cvvars, registry, reg_query, health, rcvars>>

NextContainer ==
    \/ CtRegisterInstance
    \/ CtRegisterFactory
    \/ CtRegisterSingleton
    \/ CtGet
    \/ CtClear

----------------------------------------------------------------------------
(* initialize() statement by statement, for callers that interleave *)

Callers == 1..2

InitIdle == [pc |-> "idle", built |-> NoHandle, exc |-> NoExc]

InitFailed(cause) ==
    [pc |-> "done", built |-> NoHandle,
     exc |-> Raise("ConversionError",
                   <<"AI model initialization failed: ">> \o cause)]

\* a caller enters initialize() and tests the flag
InitCheck(i) ==
    /\ init_call[i].pc \in {"idle", "done"}
    /\ init_call' = [init_call EXCEPT ![i] =
            IF model_manager.initialized
            THEN [InitIdle EXCEPT !.pc = "done"]
            ELSE [InitIdle EXCEPT !.pc = "constructing"]]
    /\ UNCHANGED <<now, mmvars, cvvars, registry, reg_query, health, ctvars, workers>>

\* mutant of InitConstruct: an engine that is already there is kept
InitConstruct_KeepsFirst(i) ==
    /\ init_call[i].pc = "constructing"
    /\ CanConstruct(1)
    /\ \E built \in BOOLEAN :
        LET fresh == construct_calls + 1
        IN  /\ construct_calls' = fresh
            /\ model_manager' =
                  IF built /\ model_manager.converter = NoHandle
                  THEN [model_manager EXCEPT !.converter = fresh]
                  ELSE model_manager
            /\ init_call' = [init_call EXCEPT ![i] =
                  IF built THEN [@ EXCEPT !.pc = "verifying", !.built = fresh]
                  ELSE InitFailed(ConstructFault)]
    /\ UNCHANGED <<now, mm_calls, cvvars, registry, reg_query, health, ctvars, workers>>

\* self._converter = DocumentConverter()
InitConstruct(i) ==
    /\ init_call[i].pc = "constructing"
    /\ CanConstruct(1)
    /\ \E built \in BOOLEAN :
        LET fresh == construct_calls + 1
        IN  /\ construct_calls' = fresh
            /\ model_manager' =
                  IF built THEN [model_manager EXCEPT !.converter = fresh]
                  ELSE model_manager
            /\ init_call' = [init_call EXCEPT ![i] =
                  IF built THEN [@ EXCEPT !.pc = "verifying", !.built = fresh]
                  ELSE InitFailed(ConstructFault)]
    /\ UNCHANGED <<now, mm_calls, cvvars, registry, reg_query, health, ctvars, workers>>

\* await self._verify_model_functionality()
InitVerify(i) ==
    /\ init_call[i].pc = "verifying"
    /\ \E responsive \in BOOLEAN :
        LET v == VerifyModelFunctionality(model_manager, responsive)
        IN  init_call' = [init_call EXCEPT ![i] =
                IF Raised(v)
                THEN [InitFailed(v.msg) EXCEPT !.built = init_call[i].built]
                ELSE [@ EXCEPT !.pc = "flagging"]]
    /\ UNCHANGED <<now, mmvars, cvvars, registry, reg_query, health, ctvars, workers>>

\* self._initialized = True, and the return
InitSetFlag(i) ==
    /\ init_call[i].pc = "flagging"
    /\ model_manager' = [model_manager EXCEPT !.initialized = TRUE]
    /\ init_call' = [init_call EXCEPT ![i].pc = "done"]
    /\ UNCHANGED <<now, construct_calls, mm_calls, cvvars, registry, reg_query,
                   health, ctvars, workers>>

\* Two callers of initialize() whose statements interleave
NextRace ==
    \E i \in Callers :
        \/ InitCheck(i)
        \/ InitConstruct(i)
        \/ InitVerify(i)
        \/ InitSetFlag(i)

----------------------------------------------------------------------------
(* Specification of the manager driven directly by its callers *)

CallIdle ==
    CallNew("DoclingAI", CHOOSE f \in Files : TRUE, "out",
            [timeout_seconds |-> DefaultTimeout, extract_images |-> TRUE])

Init ==
    /\ now = StartTime
    /\ model_manager = ModelManagerNew
    /\ construct_calls = 0
    /\ mm_calls = << >>
    /\ conv_initialized = FALSE
    /\ created_dirs = {}
    /\ call = [c \in 1..NumCalls |-> CallIdle]
    /\ cleanup_log = NoCleanup
    /\ registry = << >>
    /\ reg_query = NoQuery
    /\ health = NoPoll
    /\ container = ContainerNew
    /\ resolved = NoResolutions
    /\ init_call = [i \in Callers |-> InitIdle]
    /\ workers = << >>

NextManager ==
    \/ MMInitialize
    \/ MMGetConverter
    \/ MMHealthCheck
    \/ MMCleanup
    \/ Tick

SpecManager == Init /\ [][NextManager]_vars

SpecContainer == Init /\ [][NextContainer]_vars

SpecRace == Init /\ [][NextRace]_vars

\* Callers of initialize() whose statements interleave with each other and
\* with get_converter(), health_check() and cleanup() calls of other callers
NextInterleaved ==
    \/ \E i \in Callers :
          \/ InitCheck(i)
          \/ InitConstruct(i)
          \/ InitVerify(i)
          \/ InitSetFlag(i)
    \/ MMGetConverter
    \/ MMHealthCheck
    \/ MMCleanup

SpecInterleaved == Init /\ [][NextInterleaved]_vars

\* One caller converting one document after another
NextConvert ==
    \/ ConvertStart(1)
    \/ DelegateStart(1)
    \/ EngineReturn(1)
    \/ Timeout(1)
    \/ DoclingCleanup
    \/ Tick

SpecConvert == Init /\ [][NextConvert]_vars

\* the options as ConversionOptions() builds them
DefaultOptions == {o \in ImageOptions : o.timeout_seconds = DefaultTimeout}

\* what a delegate may raise: the typed errors, any other exception, and a
\* TimeoutError of its own
DelegateFaults == DelegateBehaviours \cup {"raise_timeout"}

\* results of a delegate that fills in timing and converter itself, or leaves
\* them at the defaults of ConversionResult
DelegateResults ==
    { [MockResult EXCEPT !.processing_time_seconds = t, !.converter_used = u] :
        t \in {0, MaxTime}, u \in {Name("MockConverter"), << >>} }

\* One caller converting with default options; the delegates raise whatever
\* a delegate can raise and return results with any timing and converter
NextEnvelope ==
    \/ ConvertStartFrom(1, Converters, Files, OutDirs, DefaultOptions)
    \/ DelegateStartFrom(1, DelegateFaults, DelegateResults)
    \/ EngineReturn(1)
    \/ Timeout(1)
    \/ DoclingCleanup
    \/ Tick

SpecEnvelope == Init /\ [][NextEnvelope]_vars

\* the files that pass validate_input of the DoclingConverter
ValidFiles == {f \in Files : ~Raised(ValidateInput("DoclingAI", f))}

\* the engine results with readable text, whatever their other attributes,
\* and those that carry nothing but the text
ExtractionDocs == BareDocs \cup {d \in EngineDocs : d.exports /\ Strip(d.text) # << >>}

\* One caller converting a valid document with the DoclingConverter, the
\* engine returning results with and without the auxiliary attributes
NextExtraction ==
    \/ ConvertStartFrom(1, {"DoclingAI"},
                        {f \in ValidFiles : f.name = <<"d", ".", "p", "d", "f">>},
                        {"out"}, {o \in Options : o.timeout_seconds = DefaultTimeout})
    \/ DelegateStart(1)
    \/ EngineReturnFrom(1, ExtractionDocs, BOOLEAN)
    \/ Timeout(1)
    \/ Tick

SpecExtraction == Init /\ [][NextExtraction]_vars

\* calls made on the converter's manager by another holder of it, of which no
\* record is kept
PeerInitialize ==
    \E built \in BOOLEAN, responsive \in BOOLEAN :
        LET r == Initialize(model_manager, built, responsive, construct_calls + 1)
        IN  /\ CanConstruct(r.constructs)
            /\ model_manager' = r.m
            /\ construct_calls' = construct_calls + r.constructs
            /\ UNCHANGED <<now, mm_calls, cvvars, srvars>>

PeerGetConverter ==
    \E built \in BOOLEAN, responsive \in BOOLEAN :
        LET r == GetConverter(model_manager, built, responsive, construct_calls + 1)
        IN  /\ CanConstruct(r.constructs)
            /\ model_manager' = r.m
            /\ construct_calls' = construct_calls + r.constructs
            /\ UNCHANGED <<now, mm_calls, cvvars, srvars>>

PeerHealthCheck ==
    \E responsive \in BOOLEAN :
        /\ model_manager' = HealthCheck(model_manager, now, responsive).m
        /\ UNCHANGED <<now, construct_calls, mm_calls, cvvars, srvars>>

PeerCleanup ==
    /\ model_manager' = Cleanup(model_manager)
    /\ UNCHANGED <<now, construct_calls, mm_calls, cvvars, srvars>>

\* the valid documents of one name
Documents == {f \in ValidFiles : f.name = <<"d", ".", "p", "d", "f">>}

\* The manager driven by a DoclingConverter's conversions and cleanup and,
\* directly, by other callers
NextLifecycle ==
    \/ PeerInitialize
    \/ PeerGetConverter
    \/ PeerHealthCheck
    \/ PeerCleanup
    \/ ConvertStartFrom(1, {"DoclingAI"}, Documents, {"out"}, DefaultOptions)
    \/ DelegateStart(1)
    \/ EngineReturn(1)
    \/ Timeout(1)
    \/ DoclingCleanup
    \/ Tick

SpecLifecycle == Init /\ [][NextLifecycle]_vars

\* The server polling the health aggregator while the callers of a
\* converter's manager initialize it, check it and clean it up
NextObserved ==
    \/ PeerInitialize
    \/ PeerGetConverter
    \/ PeerHealthCheck
    \/ PeerCleanup
    \/ GetHealthStatusCall
    \/ HealthCheckCall
    \/ Tick

SpecObserved == Init /\ [][NextObserved]_vars

\* One caller converting documents with the DoclingConverter under short and
\* long timeouts; the engine calls that timed out keep running
NextAbandon ==
    \/ ConvertStartFrom(1, {"DoclingAI"}, Documents, {"out"}, ImageOptions)
    \/ DelegateStart(1)
    \/ EngineReturn(1)
    \/ TimeoutAbandoning(1)
    \/ WorkerFinish
    \/ Tick

SpecAbandon == Init /\ [][NextAbandon]_vars

\* the file and the output directory of each of two concurrent callers
FilesOf(c) ==
    {f \in Files : f.name = IF c = 1 THEN <<"d", ".", "p", "d", "f">>
                                     ELSE <<"d", ".", "m", "d">>}

OutDirOf(c) == IF c = 1 THEN "out" ELSE "other"

\* Two callers converting distinct files into distinct directories with one
\* DoclingConverter whose engine can be constructed
NextConcurrent ==
    \E c \in 1..NumCalls :
        \/ ConvertStartFrom(c, {"DoclingAI"}, FilesOf(c), {OutDirOf(c)}, DefaultOptions)
        \/ DelegateStartIn(c, {}, {}, {TRUE}, {TRUE})
        \/ EngineReturn(c)
        \/ Timeout(c)
        \/ Tick

SpecConcurrent == Init /\ [][NextConcurrent]_vars

\* One caller converting valid documents with the DoclingConverter and
\* cleaning it up, the manager's cleanup() replaced by a double
NextCleanup ==
    \/ ConvertStartFrom(1, {"DoclingAI"}, ValidFiles, {"out"}, ImageOptions)
    \/ DelegateStart(1)
    \/ EngineReturn(1)
    \/ Timeout(1)
    \/ DoclingCleanupDoubled
    \/ Tick

SpecCleanup == Init /\ [][NextCleanup]_vars

\* The registry filled and queried by its callers
NextRegistry ==
    \/ RegRegister
    \/ RegGetConverter
    \/ RegGetConvertersForFormat
    \/ RegListSupportedFormats

SpecRegistry == Init /\ [][NextRegistry]_vars

\* The health aggregator polled by the server and by its unit tests
NextHealth ==
    \/ GetHealthStatusCall
    \/ HealthCheckCall
    \/ GetHealthStatusDoubled
    \/ HealthCheckDoubled
    \/ Tick

SpecHealth == Init /\ [][NextHealth]_vars

\* The manager's methods applied to every combination of its field values,
\* as the unit tests set them (test_ai_model_manager.py:100-106).
InitFields ==
    /\ now = StartTime
    /\ model_manager \in [converter : {NoHandle, 1}, initialized : BOOLEAN,
                          last_health_check : {0}]
    /\ construct_calls = model_manager.converter
    /\ mm_calls = << >>
    /\ conv_initialized = FALSE
    /\ created_dirs = {}
    /\ call = [c \in 1..NumCalls |-> CallIdle]
    /\ cleanup_log = NoCleanup
    /\ registry = << >>
    /\ reg_query = NoQuery
    /\ health = NoPoll
    /\ container = ContainerNew
    /\ resolved = NoResolutions
    /\ init_call = [i \in Callers |-> InitIdle]
    /\ workers = << >>

SpecManagerFields == InitFields /\ [][NextManager]_vars

----------------------------------------------------------------------------
(* Claims about the ModelManager *)

HasCalls(n) == Len(mm_calls) >= n
Last == mm_calls[Len(mm_calls)]
TwoCalls(op1, op2) ==
    /\ Len(mm_calls) = 2
    /\ mm_calls[1].op = op1
    /\ mm_calls[2].op = op2

\* C6: initialize() is idempotent: of two initialize() calls in sequence, the
\* first returning normally, the second constructs nothing, does not raise and
\* leaves handle and initialized flag as they were; starting uninitialized,
\* the two calls together construct the engine exactly once.
C6_InitializeIdempotent ==
    (TwoCalls("initialize", "initialize") /\ ~Raised(mm_calls[1].exc)) =>
        LET a == mm_calls[1]
            b == mm_calls[2]
        IN  /\ b.constructs = 0
            /\ ~Raised(b.exc)
            /\ b.post.converter = a.post.converter
            /\ b.post.initialized = a.post.initialized
            /\ b.post.initialized
            /\ (~a.pre.initialized => a.constructs + b.constructs = 1)

C6_Witness ==
    /\ TwoCalls("initialize", "initialize")
    /\ ~Raised(mm_calls[1].exc)
    /\ ~mm_calls[1].pre.initialized
    /\ mm_calls[2].post.converter # NoHandle

\* C7: cleanup() never raises and leaves initialized = false and the handle
\* absent from every state; a second cleanup() changes nothing.
C7_CleanupIdempotentTotal ==
    /\ (HasCalls(1) /\ Last.op = "cleanup") =>
            /\ ~Raised(Last.exc)
            /\ ~Last.post.initialized
            /\ Last.post.converter = NoHandle
    /\ TwoCalls("cleanup", "cleanup") => mm_calls[2].post = mm_calls[2].pre

C7_Witness ==
    /\ TwoCalls("cleanup", "cleanup")
    /\ mm_calls[1].pre.initialized
    /\ mm_calls[1].pre.converter # NoHandle
    /\ ~model_manager.initialized

\* C8 (as claimed): of two health_check() calls in sequence, the second made
\* within the interval after the last-check timestamp the first one left,
\* the second returns what the first returned and verifies nothing.
C8_CachedResultIdentical ==
    (/\ TwoCalls("health_check", "health_check")
     /\ (mm_calls[2].at - mm_calls[1].post.last_health_check) < HealthCheckInterval) =>
        /\ mm_calls[2].ret_bool = mm_calls[1].ret_bool
        /\ mm_calls[2].verifies = 0

\* C9 (as claimed): an initialize() that fails raises ConversionError and
\* leaves the manager uninitialized with the handle absent.
C9_FailedInitializeLeavesNoHandle ==
    (HasCalls(1) /\ Last.op = "initialize" /\ Raised(Last.exc)) =>
        /\ Last.exc.type = "ConversionError"
        /\ ~Last.post.initialized
        /\ Last.post.converter = NoHandle

\* C10: get_converter() on an uninitialized manager runs initialize() first;
\* when it returns normally the manager is initialized and the value returned
\* is its current handle, which is present; with the flag set and the handle
\* absent it raises ConversionError("Document converter not available") and
\* changes nothing.
C10_GetConverter ==
    (HasCalls(1) /\ Last.op = "get_converter") =>
        /\ (~Last.pre.initialized => Last.constructs = 1)
        /\ (Last.pre.initialized => Last.constructs = 0)
        /\ (~Raised(Last.exc) =>
                /\ Last.post.initialized
                /\ Last.ret_handle = Last.post.converter
                /\ Last.ret_handle # NoHandle
                /\ model_manager = Last.post)
        /\ ((Last.pre.initialized /\ Last.pre.converter = NoHandle) =>
                /\ Last.exc = Raise("ConversionError",
                                    <<"Document converter not available">>)
                /\ Last.post = Last.pre)

C10_WitnessAbsentHandle ==
    /\ HasCalls(1)
    /\ Last.op = "get_converter"
    /\ Last.pre.initialized
    /\ Last.pre.converter = NoHandle
    /\ Raised(Last.exc)

----------------------------------------------------------------------------
(* Claims about convert() *)

Done(c) == call[c].pc = "done"

Contains(s, piece) == piece \in Range(s)

\* the file's extension as can_convert() compares it
Extension(f) == LStrip(Lower(PathSuffix(f.name)), ".")

\* C1: convert() never raises: whatever validation, mkdir, the delegate
\* (returning, raising ValidationError, ConversionError or another exception,
\* not finishing in time) do, a call that has ended let no exception escape
\* and returned a ConversionResult tagged with the converter's name.
C1_ConvertNeverRaises ==
    \A c \in 1..NumCalls :
        Done(c) =>
            /\ ~Raised(call[c].escaped)
            /\ call[c].outcome \in {"invalid", "mkdir_failed", "returned", "raised", "timeout"}
            /\ call[c].result.converter_used = Name(call[c].conv)
            /\ (call[c].outcome # "returned" => ~call[c].result.success)

C1_Witness ==
    /\ Done(1)
    /\ call[1].outcome = "raised"
    /\ call[1].conv = "MockConverter"
    /\ Contains(call[1].result.error_message.val, "Unexpected error during conversion: ")

\* C2: in every result convert() returns, success = false implies that
\* error_message is set and markdown_content is empty, and success = true
\* implies that error_message is absent.
C2_ResultInvariant ==
    \A c \in 1..NumCalls :
        Done(c) =>
            LET r == call[c].result
            IN  /\ (~r.success => (r.error_message.some /\ r.markdown_content = << >>))
                /\ (r.success => ~r.error_message.some)

C2_Witness ==
    /\ Done(1)
    /\ call[1].conv = "DoclingAI"
    /\ call[1].outcome = "raised"
    /\ call[1].handle # NoHandle
    /\ ~call[1].result.success
    /\ call[1].result.error_message.some

\* C3: when the path does not exist, convert() returns success = false, a
\* message containing "File does not exist", converter_used = the converter's
\* name and processing_time_seconds >= 0.
C3_MissingFile ==
    \A c \in 1..NumCalls :
        (Done(c) /\ ~call[c].file.exists) =>
            LET r == call[c].result
            IN  /\ ~r.success
                /\ r.error_message.some
                /\ Contains(r.error_message.val, "File does not exist: ")
                /\ r.converter_used = Name(call[c].conv)
                /\ r.processing_time_seconds >= 0

C3_Witness ==
    /\ Done(1)
    /\ ~call[1].file.exists
    /\ Extension(call[1].file) \notin SupportedFormats(call[1].conv)
    /\ call[1].outcome = "invalid"

\* C4 (as claimed): whenever the file's extension is not in the converter's
\* supported_formats, convert() returns success = false with a message
\* containing "Unsupported file format".
C4_UnsupportedFormatAlways ==
    \A c \in 1..NumCalls :
        (Done(c) /\ Extension(call[c].file) \notin SupportedFormats(call[c].conv)) =>
            /\ ~call[c].result.success
            /\ Contains(call[c].result.error_message.val, "Unsupported file format: ")

\* C4 (amended): when the path exists and is a regular file and its extension
\* is not in the converter's supported_formats, convert() returns
\* success = false with a message containing "Unsupported file format".
C4_UnsupportedFormatOfExistingFile ==
    \A c \in 1..NumCalls :
        (/\ Done(c)
         /\ call[c].file.exists
         /\ call[c].file.is_file
         /\ Extension(call[c].file) \notin SupportedFormats(call[c].conv)) =>
            /\ ~call[c].result.success
            /\ call[c].result.error_message.some
            /\ Contains(call[c].result.error_message.val, "Unsupported file format: ")

C4_Witness ==
    /\ Done(1)
    /\ call[1].file.is_file
    /\ call[1].file.size > MaxFileSize
    /\ Extension(call[1].file) \notin SupportedFormats(call[1].conv)
    /\ Contains(call[1].result.error_message.val, "Unsupported file format: ")

\* C5: when the delegate has not finished within options.timeout_seconds,
\* convert() returns success = false, the message exactly "Conversion timed
\* out after {timeout_seconds} seconds", empty markdown_content and
\* converter_used = the converter's name.
C5_TimeoutResult ==
    \A c \in 1..NumCalls :
        (Done(c) /\ call[c].outcome = "timeout") =>
            LET r == call[c].result
            IN  /\ ~r.success
                /\ r.error_message =
                       Some(<<"Conversion timed out after ",
                              ToString(call[c].options.timeout_seconds), " seconds">>)
                /\ r.markdown_content = << >>
                /\ r.converter_used = Name(call[c].conv)
                /\ r.processing_time_seconds >= call[c].options.timeout_seconds

C5_Witness ==
    /\ Done(1)
    /\ call[1].outcome = "timeout"
    /\ call[1].conv = "DoclingAI"
    /\ call[1].handle # NoHandle
    /\ call[1].options.timeout_seconds = DefaultTimeout

----------------------------------------------------------------------------
(* Claims about the ConverterRegistry *)

Capable(f) == {i \in 1..Len(reg_query.reg) : CanConvert(reg_query.reg[i], f)}

\* C11: get_converter(path) returns the first converter, in registration
\* order, whose can_convert(path) is true, and None when no registered
\* converter can convert the path; with overlapping formats the converter
\* registered earlier wins.
C11_FirstCapableWins ==
    reg_query.op = "get_converter" =>
        LET hits == Capable(reg_query.file)
        IN  /\ (hits = {}) = (reg_query.found = None)
            /\ hits # {} =>
                  /\ reg_query.found.some
                  /\ reg_query.found.val \in hits
                  /\ \A j \in hits : reg_query.found.val <= j

\* two different converters that both declare the path's format are
\* registered, and the one registered first is returned
C11_Witness ==
    /\ reg_query.op = "get_converter"
    /\ \E i, j \in Capable(reg_query.file) : reg_query.reg[i] # reg_query.reg[j]
    /\ reg_query.found.some
    /\ reg_query.found.val = 1

IsAscending(list) == \A i \in 1..Len(list) - 1 : StrLess(list[i], list[i + 1])

\* C12: list_supported_formats() returns exactly the union of
\* supported_formats over the registered converters, as a sequence sorted
\* ascending without duplicates (empty when nothing is registered).
C12_SortedUnion ==
    reg_query.op = "list_supported_formats" =>
        /\ Range(reg_query.list) =
              UNION {SupportedFormats(reg_query.reg[i]) : i \in 1..Len(reg_query.reg)}
        /\ IsAscending(reg_query.list)
        /\ Cardinality(Range(reg_query.list)) = Len(reg_query.list)
        /\ (reg_query.reg = << >>) => (reg_query.list = << >>)

\* two converters with overlapping formats are registered and listed
C12_Witness ==
    /\ reg_query.op = "list_supported_formats"
    /\ \E i, j \in 1..Len(reg_query.reg) :
          /\ reg_query.reg[i] # reg_query.reg[j]
          /\ SupportedFormats(reg_query.reg[i]) \cap SupportedFormats(reg_query.reg[j]) # {}
    /\ Len(reg_query.list) > 1

IsIncreasing(list) == \A i \in 1..Len(list) - 1 : list[i] < list[i + 1]

\* C13: get_converters_for_format(ext) returns exactly the registered
\* converters whose supported_formats contains ext in lower case without
\* leading dot, in registration order; "pdf", ".pdf" and "PDF" give the
\* same result.
C13_ConvertersForFormat ==
    /\ reg_query.op = "get_converters_for_format" =>
          /\ Range(reg_query.list) =
                {i \in 1..Len(reg_query.reg) :
                    \E fmt \in SupportedFormats(reg_query.reg[i]) :
                        \/ reg_query.extension = fmt
                        \/ \E k \in 1..Len(reg_query.extension) :
                              /\ \A d \in 1..k : reg_query.extension[d] = "."
                              /\ Lower(SubSeq(reg_query.extension, k + 1,
                                              Len(reg_query.extension))) = fmt
                        \/ Lower(reg_query.extension) = fmt}
          /\ IsIncreasing(reg_query.list)
    /\ GetConvertersForFormat(registry, <<"p", "d", "f">>)
          = GetConvertersForFormat(registry, <<".", "p", "d", "f">>)
    /\ GetConvertersForFormat(registry, <<"p", "d", "f">>)
          = GetConvertersForFormat(registry, <<"P", "D", "F">>)

\* an extension given in upper case or with a leading dot selects converters
C13_Witness ==
    /\ reg_query.op = "get_converters_for_format"
    /\ reg_query.extension \in {<<"P", "D", "F">>, <<".", ".", "M", "d">>}
    /\ Len(reg_query.reg) > 1
    /\ reg_query.list # << >>
    /\ Len(reg_query.list) < Len(reg_query.reg)

----------------------------------------------------------------------------
(* Further claims about the ModelManager *)

\* C18: health_check() never changes the lifecycle state: from every state
\* and whatever the verification outcome, the initialized flag and the handle
\* are the same after the call as before it; only the last-check timestamp
\* may change.
C18_HealthCheckKeepsLifecycle ==
    (HasCalls(1) /\ Last.op = "health_check") =>
        /\ Last.post.initialized = Last.pre.initialized
        /\ Last.post.converter = Last.pre.converter
        /\ ~Raised(Last.exc)

\* a health check whose verification failed
C18_Witness ==
    /\ HasCalls(1)
    /\ Last.op = "health_check"
    /\ Last.verifies = 1
    /\ ~Last.ret_bool
    /\ Last.pre.initialized
    /\ Last.post.last_health_check # Last.pre.last_health_check

----------------------------------------------------------------------------
(* Claims about the health aggregator *)

Components == health.health_status.components

Reported == health.op # "none" /\ ~health.health_status.error

AnyIs(status) == \E i \in 1..Len(Components) : Components[i] = status

\* C15: get_health_status() reduces the component statuses to "unhealthy"
\* if any component is "unhealthy", otherwise to "degraded" if any is
\* "degraded", otherwise to "healthy", wherever in the order of examination
\* those components stand; "not_initialized" counts as neither.
C15_ReductionRule ==
    Reported =>
        health.health_status.status =
            IF AnyIs("unhealthy") THEN "unhealthy"
            ELSE IF AnyIs("degraded") THEN "degraded"
            ELSE "healthy"

\* an "unhealthy" component is examined before a "degraded" one, and a
\* "degraded" one before an "unhealthy" one
C15_Witness ==
    /\ Reported
    /\ \E i, j, k \in 1..Len(Components) :
          /\ i < j
          /\ j < k
          /\ Components[i] = "degraded"
          /\ Components[j] = "unhealthy"
          /\ Components[k] = "degraded"
    /\ health.health_status.status = "unhealthy"

\* C16 (as claimed): in a process whose AI resource has never been
\* initialized and whose config, logging and filesystem probes are healthy,
\* health_check() returns true.
C16_FreshProcessHealthy ==
    ( /\ health.op = "health_check"
      /\ ~health.doubled
      /\ health.ai_fault # "Exception"
      /\ Reported
      /\ Components[2] = "healthy"
      /\ Components[3] = "healthy"
      /\ Components[4] = "healthy" ) => health.ret

\* C17: health_check() returns true if and only if the overall status is
\* "healthy" or "degraded" and every component status is "healthy" or
\* "not_initialized"; it never raises, and returns false when a component is
\* unhealthy or when obtaining the status raises.
C17_HealthCheckVerdict ==
    health.op = "health_check" =>
        /\ ~Raised(health.escaped)
        /\ health.ret =
              ( /\ ~health.status_raised
                /\ health.health_status.status \in {"healthy", "degraded"}
                /\ \A i \in 1..Len(Components) :
                      Components[i] \in {"healthy", "not_initialized"} )
        /\ (AnyIs("unhealthy") \/ health.status_raised \/ health.health_status.error)
              => ~health.ret

\* the overall status is "degraded" and the verdict is false
C17_Witness ==
    /\ health.op = "health_check"
    /\ health.health_status.status = "degraded"
    /\ ~Raised(health.escaped)
    /\ ~health.ret

----------------------------------------------------------------------------
(* Claims about the DoclingConverter *)

EngineAnswered(c) ==
    /\ Done(c)
    /\ call[c].conv = "DoclingAI"
    /\ call[c].engine = "returned"

PlainCount(items) == Cardinality({i \in 1..Len(items) : items[i] = "plain"})

\* C14: auxiliary extraction never fails a conversion: when the engine call
\* succeeds, a failure while extracting metadata, images or hyperlinks
\* (the images or links of the engine's result raising when read included)
\* yields an empty or partial auxiliary value, and the result of convert()
\* still has success = true.
C14_AuxiliaryNeverFails ==
    \A c \in 1..NumCalls :
        EngineAnswered(c) =>
            LET r == call[c].result
                d == call[c].doc
            IN  /\ call[c].outcome = "returned"
                /\ r.success
                /\ r.error_message = None
                /\ (d.metadata = "raises" \/ d.pages = "unsized")
                      => (r.metadata.title = None /\ r.metadata.page_count = None)
                /\ d.images.attr = "raises" => r.extracted_images = << >>
                /\ Len(r.extracted_images) <= PlainCount(d.images.items)
                /\ d.links.attr = "raises" => r.hyperlinks = << >>
                /\ Len(r.hyperlinks) = PlainCount(d.links.items)

\* metadata, images and links of the engine's result all raise when read
C14_Witness ==
    /\ EngineAnswered(1)
    /\ call[1].options.extract_images
    /\ call[1].doc.metadata = "raises"
    /\ call[1].doc.images.attr = "raises"
    /\ call[1].doc.links.attr = "raises"
    /\ call[1].result.success

\* one image of two cannot be read: the other one is listed
C14_WitnessPartial ==
    /\ EngineAnswered(1)
    /\ call[1].doc.images.items = <<"broken", "plain">>
    /\ Len(call[1].result.extracted_images) = 1
    /\ call[1].result.success

\* C19: when export_to_markdown() returns a non-blank string s for a valid
\* supported file, DoclingConverter.convert() returns success = true with
\* markdown_content equal to s unmodified, converter_used = "DoclingAI",
\* no error_message and processing_time_seconds >= 0.
C19_MarkdownVerbatim ==
    \A c \in 1..NumCalls :
        ( /\ EngineAnswered(c)
          /\ call[c].doc.exports
          /\ Strip(call[c].doc.text) # << >> ) =>
            LET r == call[c].result
            IN  /\ r.success
                /\ r.markdown_content = call[c].doc.text
                /\ r.converter_used = <<"DoclingAI">>
                /\ r.error_message = None
                /\ r.processing_time_seconds >= 0

\* a text with trailing white space came back as it was
C19_Witness ==
    /\ EngineAnswered(1)
    /\ call[1].doc.exports
    /\ Strip(call[1].doc.text) # << >>
    /\ Strip(call[1].doc.text) # call[1].doc.text
    /\ call[1].result.markdown_content = call[1].doc.text

\* C20 (as claimed): cleanup() of the DoclingConverter never raises and
\* always leaves the converter's initialized flag cleared, also when the
\* manager's cleanup() raises.
C20_CleanupAlwaysClears ==
    cleanup_log.called =>
        /\ ~Raised(cleanup_log.escaped)
        /\ ~cleanup_log.after

----------------------------------------------------------------------------
(* Claims about the envelope of convert() *)

TypedError(e) == e.type \in {"ValidationError", "ConversionError"}

Unexpected(e) == <<"Unexpected error during conversion: ">> \o e.msg

\* validation, mkdir or the delegate raised inside convert()
RaisedInside(c) ==
    /\ Done(c)
    /\ call[c].outcome \in {"invalid", "mkdir_failed", "raised"}

\* C22 (as claimed): when validation or the delegate raises a
\* ValidationError or ConversionError, the failed result's error_message is
\* that error's message verbatim; when any other exception is raised, it is
\* "Unexpected error during conversion: " followed by the exception text; in
\* all these cases success = false and converter_used is the converter's name.
C22_EnvelopeAnyException ==
    \A c \in 1..NumCalls :
        RaisedInside(c) =>
            LET e == call[c].cause
                r == call[c].result
            IN  /\ ~r.success
                /\ r.converter_used = Name(call[c].conv)
                /\ r.error_message =
                      IF TypedError(e) THEN Some(e.msg) ELSE Some(Unexpected(e))

\* C22 (amended): as claimed for every exception other than a TimeoutError;
\* a TimeoutError raised by the delegate is reported as the timeout result.
C22_EnvelopeExceptTimeout ==
    \A c \in 1..NumCalls :
        RaisedInside(c) =>
            LET e == call[c].cause
                r == call[c].result
            IN  /\ ~r.success
                /\ r.converter_used = Name(call[c].conv)
                /\ r.error_message =
                      IF TypedError(e) THEN Some(e.msg)
                      ELSE IF e.type = "TimeoutError"
                      THEN Some(TimeoutMessage(call[c].options))
                      ELSE Some(Unexpected(e))

\* a delegate raised an exception that is neither typed nor a TimeoutError
C22_Witness ==
    /\ RaisedInside(1)
    /\ call[1].outcome = "raised"
    /\ call[1].cause.type = "Exception"
    /\ call[1].result.error_message = Some(Unexpected(call[1].cause))

\* a delegate raised a TimeoutError of its own
C22_WitnessTimeoutError ==
    /\ RaisedInside(1)
    /\ call[1].cause.type = "TimeoutError"

\* the step in which convert() of call c returns the delegate's result
ReturnsResult(c) ==
    /\ call[c].pc \in {"scheduled", "in_thread"}
    /\ call'[c].pc = "done"
    /\ call'[c].outcome = "returned"

\* what the delegate of call c returned to convert() in this step
DelegateResult(c) ==
    IF call[c].conv = "DoclingAI"
    THEN DoclingFinish(TRUE, call'[c].doc, now - call[c].conversion_start,
                       call[c].out, call[c].options, TRUE).result
    ELSE call'[c].raw

\* C23: on success convert() overwrites the delegate result's
\* processing_time_seconds with the time elapsed since convert() started and
\* its converter_used with the converter's name, whatever the delegate put
\* there, and changes no other field of the delegate's result.
C23_StampOnly ==
    [][\A c \in 1..NumCalls :
         ReturnsResult(c) =>
            LET raw == DelegateResult(c)
                r   == call'[c].result
            IN  /\ r.processing_time_seconds = now - call[c].start_time
                /\ r.converter_used = Name(call[c].conv)
                /\ r = [raw EXCEPT
                          !.processing_time_seconds = r.processing_time_seconds,
                          !.converter_used = r.converter_used]]_vars

\* a delegate's result with another timing and no converter was returned
\* after time had passed
C23_Witness ==
    /\ Done(1)
    /\ call[1].outcome = "returned"
    /\ call[1].raw.converter_used # call[1].result.converter_used
    /\ call[1].raw.processing_time_seconds # call[1].result.processing_time_seconds
    /\ call[1].result.processing_time_seconds > 0

\* the step in which convert() of call c returns a validation failure
FailsValidation(c) ==
    /\ call'[c] # call[c]
    /\ call'[c].pc = "done"
    /\ call'[c].outcome = "invalid"

\* C24: when convert()'s validation fails, the output directory is not
\* created, the delegate is not invoked and the model manager is not
\* initialized: manager state and filesystem are unchanged.
C24_ValidationBeforeEffects ==
    [][\A c \in 1..NumCalls :
         FailsValidation(c) =>
            /\ call[c].pc \in {"idle", "done"}
            /\ call'[c].handle = NoHandle
            /\ UNCHANGED <<model_manager, construct_calls, conv_initialized,
                           created_dirs>>]_vars

\* validation of a DoclingConverter call failed for an output directory that
\* does not exist, with the manager uninitialized
C24_Witness ==
    /\ Done(1)
    /\ call[1].outcome = "invalid"
    /\ call[1].conv = "DoclingAI"
    /\ <<call[1].out>> \notin created_dirs
    /\ call[1].out = "out"
    /\ ~model_manager.initialized

\* the first failing check of validate_input, "" when all pass
FirstFailure(conv, f) ==
    IF ~f.exists THEN "File does not exist: "
    ELSE IF ~f.is_file THEN "Path is not a file: "
    ELSE IF LStrip(Lower(PathSuffix(f.name)), ".") \notin SupportedFormats(conv)
    THEN "Unsupported file format: "
    ELSE IF f.size > MaxFileSize THEN "File too large: "
    ELSE ""

\* C25: validate_input checks exists, is-regular-file, extension supported,
\* size <= 100 MB in this order and reports only the first failing check; a
\* file of exactly 100*1024*1024 bytes is accepted, one byte more is rejected.
C25_ValidationOrder ==
    \A c \in 1..NumCalls :
        Done(c) =>
            LET f == call[c].file
                first == FirstFailure(call[c].conv, f)
            IN  IF first = ""
                THEN call[c].outcome # "invalid"
                ELSE /\ call[c].outcome = "invalid"
                     /\ call[c].result.error_message.some
                     /\ Head(call[c].result.error_message.val) = first

\* a supported file of exactly the maximum size was converted
C25_Witness ==
    /\ Done(1)
    /\ call[1].file.size = MaxFileSize
    /\ call[1].outcome = "returned"

----------------------------------------------------------------------------
(* Claims about the container *)

Succeeded(o) == ~Raised(o.exc)

\* what the claim says of the get() calls gs made on a type registered with
\* the given method
SingletonSemantics(gs) ==
    /\ Cardinality({i \in DOMAIN gs : gs[i].invoked}) <= 1
    /\ \A i, j \in DOMAIN gs :
          Succeeded(gs[i]) /\ Succeeded(gs[j]) => gs[i].ret = gs[j].ret

FactorySemantics(gs) ==
    /\ \A i \in DOMAIN gs : gs[i].invoked
    /\ \A i, j \in DOMAIN gs :
          Succeeded(gs[i]) /\ Succeeded(gs[j]) /\ i # j => gs[i].ret # gs[j].ret

InstanceSemantics(gs, instance) ==
    \A i \in DOMAIN gs :
        Succeeded(gs[i]) /\ ~gs[i].invoked /\ gs[i].ret = instance

CreatedOnce(gs) ==
    \A i, j \in DOMAIN gs :
        Succeeded(gs[i]) /\ i < j =>
            /\ ~gs[j].invoked
            /\ Succeeded(gs[j])
            /\ gs[j].ret = gs[i].ret

\* the get() calls gs invoked the factory until it returned an instance
InvokedUntilCreated(gs) ==
    \A i \in DOMAIN gs :
        (\A h \in 1..(i - 1) : ~Succeeded(gs[h])) => gs[i].invoked

C21_WitnessFactory ==
    \E k \in ServiceTypes :
        /\ resolved.regs[k] = <<"factory">>
        /\ Len(resolved.gets[k]) >= 2
        /\ Succeeded(resolved.gets[k][1])
        /\ Succeeded(resolved.gets[k][2])

----------------------------------------------------------------------------
(* Claims about the lifecycle of the handle *)

\* a step takes the handle or the initialized flag away
ClearsHandle ==
    \/ model_manager.converter # NoHandle /\ model_manager'.converter = NoHandle
    \/ model_manager.initialized /\ ~model_manager'.initialized

\* C28: only cleanup() clears the handle: no other operation (initialize
\* succeeding or failing, get_converter, health_check, any convert() outcome)
\* changes a present handle to absent or clears the initialized flag.
C28_OnlyCleanupClears ==
    [][ClearsHandle => (PeerCleanup \/ DoclingCleanup)]_vars

\* a conversion timed out after a health check, and the handle and the flag
\* are still there
C28_Witness ==
    /\ Done(1)
    /\ call[1].outcome = "timeout"
    /\ model_manager.initialized
    /\ model_manager.converter # NoHandle
    /\ model_manager.last_health_check > 0

\* the converter has initialized the manager and neither has been cleaned up
InitializedThroughConverter ==
    /\ conv_initialized
    /\ model_manager.initialized
    /\ model_manager.converter # NoHandle

\* the step in which call c hands the document to the engine
ReachesEngine(c) == call[c].pc = "scheduled" /\ call'[c].pc = "in_thread"

\* C30: the first DoclingConverter.convert() that passes validation
\* initializes the model manager; across the following convert() calls
\* without cleanup() the engine is not constructed again and every
\* conversion uses the same handle.
C30_LazyOneTimeInitialization ==
    [][/\ \A c \in 1..NumCalls :
            ReachesEngine(c) =>
                /\ InitializedThroughConverter'
                /\ call'[c].handle = model_manager'.converter
                /\ ~model_manager.initialized
                      => construct_calls' = construct_calls + 1
       /\ InitializedThroughConverter /\ ~(PeerCleanup \/ DoclingCleanup)
            => /\ construct_calls' = construct_calls
               /\ model_manager'.converter = model_manager.converter
               /\ InitializedThroughConverter']_vars

\* a later conversion has reached the engine with the one handle that was
\* ever constructed
C30_Witness ==
    /\ call[1].pc = "in_thread"
    /\ <<call[1].out, "images">> \in created_dirs
    /\ InitializedThroughConverter
    /\ construct_calls = 1
    /\ call[1].handle = 1

----------------------------------------------------------------------------
(* Claims about the abandoned engine call *)

\* the step in which call c times out while the engine runs in its thread
TimesOutInThread(c) ==
    /\ call[c].pc = "in_thread"
    /\ call'[c].pc = "done"
    /\ call'[c].outcome = "timeout"

\* the step in which an abandoned engine call ends
LateResult ==
    \E i \in DOMAIN workers :
        /\ i \in DOMAIN workers'
        /\ workers[i].state = "running"
        /\ workers'[i].state # "running"

\* C26: when the timeout expires while the engine call runs in the worker
\* context, convert() returns the timeout failure result without waiting for
\* the worker; what the worker produces later is discarded: it alters neither
\* the result returned nor the manager's initialized flag or handle.
C26_TimeoutAbandonsWorker ==
    [][/\ \A c \in 1..NumCalls :
            TimesOutInThread(c) =>
                /\ ~call'[c].result.success
                /\ call'[c].result.error_message
                      = Some(TimeoutMessage(call[c].options))
                /\ Len(workers') = Len(workers) + 1
                /\ workers'[Len(workers')].state = "running"
       /\ LateResult =>
                /\ call' = call
                /\ model_manager' = model_manager
                /\ conv_initialized' = conv_initialized]_vars

\* an abandoned engine call returned after its conversion had been answered
\* with the timeout result
C26_Witness ==
    \E i \in DOMAIN workers :
        /\ workers[i].state = "returned"
        /\ Done(workers[i].call)
        /\ call[workers[i].call].outcome = "timeout"
        /\ call[workers[i].call].handle = workers[i].handle
        /\ model_manager.initialized

----------------------------------------------------------------------------
(* Claims about concurrent callers of initialize() *)

\* caller i found the manager uninitialized and has constructed an engine
Constructed(i) == init_call[i].built # NoHandle

\* C27: initialize() has no mutual exclusion around construction: when two
\* callers run it on an uninitialized manager and the second tests the flag
\* before the first has set it, the engine is constructed twice and the
\* handle constructed later replaces the earlier one.
C27_RaceConstructsTwice ==
    \A i, j \in Callers :
        Constructed(i) /\ Constructed(j) /\ i # j =>
            /\ init_call[i].built # init_call[j].built
            /\ construct_calls >= 2
            /\ init_call[i].built < init_call[j].built
                  => model_manager.converter >= init_call[j].built

\* both callers have returned from initialize() after constructing an engine
\* each, and the manager holds the second
C27_Witness ==
    /\ \A i \in Callers : init_call[i].pc = "done" /\ Constructed(i)
    /\ init_call[1].built = 1
    /\ init_call[2].built = 2
    /\ construct_calls = 2
    /\ model_manager.converter = 2
    /\ model_manager.initialized

----------------------------------------------------------------------------
(* Claims about concurrent conversions *)

\* what the claim compares of a result
Compared(r) == <<r.success, r.markdown_content, r.error_message>>

\* the result of call cl when it is the only call made on a new
\* DoclingConverter, the engine answering and taking as long as it did for cl
AloneResult(cl) ==
    LET v == ValidateInput(cl.conv, cl.file)
        d == Mkdir(cl.out)
        b == DoclingBegin(FALSE, ModelManagerNew, TRUE, TRUE, 1)
        f == DoclingFinish(cl.engine = "returned", cl.doc, 0, cl.out, cl.options, TRUE)
    IN  IF Raised(v) THEN HandleException(v, cl.conv, cl.options, 0).result
        ELSE IF Raised(d) THEN HandleException(d, cl.conv, cl.options, 0).result
        ELSE IF Raised(b.exc) THEN HandleException(b.exc, cl.conv, cl.options, 0).result
        ELSE IF cl.outcome = "timeout"
        THEN HandleException(Raise("TimeoutError", << >>), cl.conv, cl.options, 0).result
        ELSE IF Raised(f.exc) THEN HandleException(f.exc, cl.conv, cl.options, 0).result
        ELSE StampResult(f.result, cl.conv, 0)

\* C29: for two convert() calls in flight concurrently on one
\* DoclingConverter with distinct files and output directories and no
\* cleanup(), each call's success, markdown_content and error_message are the
\* same under every interleaving as when the call runs alone.
C29_NoInterference ==
    \A c \in 1..NumCalls :
        Done(c) => Compared(call[c].result) = Compared(AloneResult(call[c]))

\* the first call has returned its document while the second, in flight
\* since the start, is still with the engine
C29_Witness ==
    /\ Done(1)
    /\ call[1].outcome = "returned"
    /\ Strip(call[1].doc.text) # << >>
    /\ call[1].result.markdown_content = call[1].doc.text
    /\ call[2].pc = "in_thread"
    /\ call[2].conversion_start = StartTime
    /\ call[2].handle = call[1].handle

----------------------------------------------------------------------------
(* Claims about failed and repeated initialization *)

\* the step in which convert() of call c fails because DocumentConverter()
\* raised
ConstructionFails(c) ==
    /\ call[c].pc = "scheduled"
    /\ call'[c].pc = "done"
    /\ call'[c].outcome = "raised"
    /\ Range(ConstructFault) \subseteq Range(call'[c].cause.msg)

\* the step in which the delegate of call c runs with the manager
\* uninitialized
RunsUninitialized(c) ==
    /\ call[c].pc = "scheduled"
    /\ call[c].conv = "DoclingAI"
    /\ call'[c].pc = "in_thread" \/ call'[c].outcome = "raised"
    /\ ~model_manager.initialized

\* construction is attempted, and the call goes on to the engine with a new
\* handle unless the initialization fails again
Retries(c) ==
    /\ construct_calls' = construct_calls + 1
    /\ call'[c].pc = "in_thread" =>
          /\ model_manager'.initialized
          /\ conv_initialized'
          /\ call'[c].handle = construct_calls'
          /\ model_manager'.converter = construct_calls'
    /\ call'[c].pc = "done" =>
          \E part \in Range(call'[c].cause.msg) :
              part = "AI model initialization failed: "

\* C31 (as claimed): after a DoclingConverter.convert() that fails because
\* engine construction failed, the converter's and the manager's initialized
\* flags are both false, and the next convert() attempts construction again
\* and succeeds if construction now succeeds.
C31_FailureClearsBothFlags ==
    [][\A c \in 1..NumCalls :
         /\ ConstructionFails(c) =>
                ~conv_initialized' /\ ~model_manager'.initialized
         /\ RunsUninitialized(c) => Retries(c)]_vars

\* C31 (amended): after such a failure the manager's flag is false and the
\* converter's flag is as it was before the call (false, unless an earlier
\* conversion set it and the manager was cleaned up directly since); the
\* next convert() attempts construction again and succeeds if it succeeds.
C31_FailureIsRetryable ==
    [][\A c \in 1..NumCalls :
         /\ ConstructionFails(c) =>
                /\ ~model_manager'.initialized
                /\ conv_initialized' = conv_initialized
                /\ ~model_manager.initialized
         /\ RunsUninitialized(c) => Retries(c)]_vars

\* a conversion has failed because DocumentConverter() raised, and construction
\* has been attempted twice: the failure left both flags false for the retry
C31_Witness ==
    /\ Done(1)
    /\ call[1].outcome = "raised"
    /\ Range(ConstructFault) \subseteq Range(call[1].cause.msg)
    /\ construct_calls = 2
    /\ model_manager.converter = NoHandle
    /\ ~model_manager.initialized
    /\ ~conv_initialized

----------------------------------------------------------------------------
(* Claims about re-initialization after cleanup *)

\* a cleanup() step, on the converter or directly on its manager
CleansUp == PeerCleanup \/ DoclingCleanup

\* what initialize() and get_converter() do to manager m when construction
\* and verification succeed and the engine built is the one numbered fresh
Reinitialized(m, fresh) ==
    LET i == Initialize(m, TRUE, TRUE, fresh)
        g == GetConverter(m, TRUE, TRUE, fresh)
    IN  /\ i.m = [m EXCEPT !.converter = fresh, !.initialized = TRUE]
        /\ i.constructs = 1 /\ ~Raised(i.exc)
        /\ g.m = i.m /\ g.ret = fresh
        /\ g.constructs = 1 /\ ~Raised(g.exc)

\* C32: the lifecycle is re-entrant: cleanup() on an initialized manager
\* leaves it uninitialized without a handle, and from there a later
\* initialize() or get_converter(), called directly or through
\* DoclingConverter.convert() and whether the cleanup was the converter's or
\* the manager's own, constructs a handle that did not exist before and
\* leaves the manager initialized.
C32_LifecycleReentrant ==
    [][/\ CleansUp =>
            /\ ~model_manager'.initialized
            /\ model_manager'.converter = NoHandle
            /\ Reinitialized(model_manager', construct_calls' + 1)
       /\ \A c \in 1..NumCalls :
            ReachesEngine(c) /\ ~model_manager.initialized =>
                /\ construct_calls' = construct_calls + 1
                /\ model_manager'.initialized
                /\ model_manager'.converter = construct_calls'
                /\ call'[c].handle = construct_calls'
                /\ model_manager.converter # construct_calls'
       /\ ~model_manager.initialized /\ model_manager'.initialized =>
            /\ construct_calls' = construct_calls + 1
            /\ model_manager'.converter = construct_calls']_vars

\* a conversion has run on the first engine, and after a cleanup() the
\* manager is initialized again with the second engine
C32_Witness ==
    /\ Done(1)
    /\ call[1].outcome = "returned"
    /\ call[1].handle = 1
    /\ construct_calls = 2
    /\ model_manager.initialized
    /\ model_manager.converter = 2

----------------------------------------------------------------------------
(* Claims about the extraction options *)

\* the step in which the engine answers call c, made with extract_images off
AnswersWithoutImages(c) ==
    /\ call[c].pc = "in_thread"
    /\ call'[c].pc = "done"
    /\ call'[c].engine = "returned"
    /\ ~call[c].options.extract_images

\* C33: when options.extract_images is false, image extraction returns an
\* empty list whatever the engine result contains, does not create the
\* images/ subdirectory and does not read the engine result's images.
C33_ImagesDisabled ==
    [][\A c \in 1..NumCalls :
          AnswersWithoutImages(c) =>
              /\ call'[c].result.extracted_images = << >>
              /\ created_dirs' = created_dirs
              /\ \A images \in Attrs, dir_ok \in BOOLEAN :
                    ExtractImages([call'[c].doc EXCEPT !.images = images],
                                  call[c].out, call[c].options, dir_ok)
                       = [list |-> << >>, dirs |-> {}, reads |-> FALSE]]_vars

\* the engine's result held a readable image, the conversion was made with
\* extract_images off: no image is listed and no images directory exists
C33_Witness ==
    /\ EngineAnswered(1)
    /\ ~call[1].options.extract_images
    /\ call[1].doc.images.items = <<"plain", "broken">>
    /\ call[1].result.success
    /\ call[1].result.extracted_images = << >>
    /\ ImagesDir(call[1].out) \notin created_dirs

\* C34: degenerate markdown outputs are not failures: when the engine call
\* succeeds and export_to_markdown() returns empty or whitespace-only text
\* the result has success = true and the "No readable content found"
\* placeholder as markdown_content; when export_to_markdown() raises the
\* result has success = true and a "# Conversion Error" placeholder that
\* embeds the failure text; the markdown_content of a successful result of
\* the DoclingConverter is never empty.
C34_DegenerateMarkdown ==
    \A c \in 1..NumCalls :
        /\ EngineAnswered(c) =>
              LET r == call[c].result
                  d == call[c].doc
              IN  /\ r.success
                  /\ r.error_message = None
                  /\ (d.exports /\ Strip(d.text) = << >>) =>
                        r.markdown_content =
                            <<"# Document Converted\n\nNo readable content found.">>
                  /\ ~d.exports =>
                        r.markdown_content =
                            <<"# Conversion Error\n\nFailed to extract content: ">>
                                \o ExportFault
        /\ (Done(c) /\ call[c].conv = "DoclingAI" /\ call[c].result.success) =>
              call[c].result.markdown_content # << >>

\* the engine exported white space only: the conversion succeeded with the
\* placeholder
C34_Witness ==
    /\ EngineAnswered(1)
    /\ call[1].doc.exports
    /\ call[1].doc.text = <<" ", "\n">>
    /\ call[1].result.success
    /\ call[1].result.markdown_content =
          <<"# Document Converted\n\nNo readable content found.">>

\* export_to_markdown() raised: the conversion succeeded with the error
\* placeholder
C34_WitnessExportRaises ==
    /\ EngineAnswered(1)
    /\ ~call[1].doc.exports
    /\ call[1].result.success
    /\ Range(ExportFault) \subseteq Range(call[1].result.markdown_content)

----------------------------------------------------------------------------
(* Claims about the contents of the registry *)

\* a lookup has run: get_converter, get_converters_for_format or
\* list_supported_formats left its answer
LooksUp == reg_query' # reg_query

\* C35: the registry is append-only: register adds the converter at the end
\* of the list, duplicates kept, and changes nothing before it; the three
\* lookup operations never modify the list and nothing is ever removed, so
\* the list is the sequence of the registered converters in call order.
C35_RegistryAppendOnly ==
    [][/\ RegRegister =>
            /\ Len(registry') = Len(registry) + 1
            /\ SubSeq(registry', 1, Len(registry)) = registry
            /\ registry'[Len(registry')] \in Converters
       /\ LooksUp => registry' = registry
       /\ registry' # registry => RegRegister]_vars

\* one converter is registered twice with another in between, and a lookup
\* has run on that list
C35_Witness ==
    /\ registry = <<"MockConverter", "DoclingAI", "MockConverter">>
    /\ reg_query.op = "list_supported_formats"
    /\ reg_query.reg = registry

----------------------------------------------------------------------------
(* Claims about health_check() of the ModelManager *)

\* the last call was a health_check() made when the interval since the
\* last-check timestamp had elapsed
CheckedAfterInterval ==
    /\ HasCalls(1)
    /\ Last.op = "health_check"
    /\ (Last.at - Last.pre.last_health_check) >= HealthCheckInterval

\* the manager holds a handle and its flag is set
Usable(m) == m.initialized /\ m.converter # NoHandle

\* C36: when the interval since the last check has elapsed, health_check()
\* on an uninitialized manager returns false without running verification;
\* on an initialized manager it runs the verification exactly once, sets the
\* last-check timestamp to the current time whether verification passes or
\* fails, returns true exactly when verification passed, and never raises.
C36_HealthCheckAfterInterval ==
    CheckedAfterInterval =>
        /\ ~Raised(Last.exc)
        /\ ~Usable(Last.pre) =>
              /\ ~Last.ret_bool
              /\ Last.verifies = 0
              /\ Last.post = Last.pre
        /\ Usable(Last.pre) =>
              /\ Last.verifies = 1
              /\ Last.post = [Last.pre EXCEPT !.last_health_check = Last.at]
              /\ \A responsive \in BOOLEAN :
                    LET r == HealthCheck(Last.pre, Last.at, responsive)
                    IN  /\ r.ret = responsive
                        /\ r.verifies = 1
                        /\ r.m = Last.post

\* a second interval has elapsed, and the verification of the health check
\* made then failed: the answer is false and the timestamp is the time of
\* the call
C36_Witness ==
    /\ CheckedAfterInterval
    /\ Last.pre.last_health_check > 0
    /\ Usable(Last.pre)
    /\ Last.verifies = 1
    /\ ~Last.ret_bool
    /\ model_manager.last_health_check = Last.at

\* the interval has elapsed and the manager is not initialized
C36_WitnessUninitialized ==
    /\ CheckedAfterInterval
    /\ ~Last.pre.initialized
    /\ ~Last.ret_bool
    /\ Last.post.last_health_check = 0

\* the last call was a health_check() made inside the interval after the
\* last-check timestamp
CheckedInsideInterval ==
    /\ HasCalls(1)
    /\ Last.op = "health_check"
    /\ (Last.at - Last.pre.last_health_check) < HealthCheckInterval

C37_WitnessCleanedUp ==
    /\ TwoCalls("cleanup", "health_check")
    /\ mm_calls[1].pre.initialized
    /\ CheckedInsideInterval
    /\ ~Last.ret_bool

\* an initialize() constructed a new engine on a manager that had been
\* checked and cleaned up, and a health_check() followed inside the interval
\* after the timestamp of that earlier check
ChecksNewEngineInsideInterval ==
    /\ TwoCalls("initialize", "health_check")
    /\ mm_calls[1].constructs = 1
    /\ ~Raised(mm_calls[1].exc)
    /\ mm_calls[1].pre.last_health_check > 0
    /\ CheckedInsideInterval

\* C39: cleanup() leaves the last-health-check timestamp unchanged, and so
\* does initialize(): after a health_check() that verified, a cleanup() and
\* a successful re-initialization all within the 300-second interval, the
\* next health_check() returns true without verifying the newly constructed
\* handle.
C39_CleanupKeepsTimestamp ==
    /\ (HasCalls(1) /\ Last.op \in {"cleanup", "initialize"}) =>
          Last.post.last_health_check = Last.pre.last_health_check
    /\ ChecksNewEngineInsideInterval =>
          /\ Last.ret_bool
          /\ Last.verifies = 0
          /\ Last.pre.converter = mm_calls[1].post.converter
          /\ Last.post.last_health_check = mm_calls[1].pre.last_health_check

\* the engine was constructed after the last check and after a cleanup(),
\* and the health check inside the interval answered true without verifying
C39_Witness ==
    /\ ChecksNewEngineInsideInterval
    /\ mm_calls[1].pre.converter = NoHandle
    /\ ~mm_calls[1].pre.initialized
    /\ Last.pre.converter = construct_calls
    /\ construct_calls > 1
    /\ Last.ret_bool
    /\ Last.verifies = 0

----------------------------------------------------------------------------
(* Claims about the manager under interleaved calls *)

----------------------------------------------------------------------------
(* Claims about what the health aggregator observes *)

\* what get_health_status() answers in the current state for given outcomes
\* of its probes
StatusFor(settings, logger_ok, writable, ai_fault, responsive) ==
    GetHealthStatus(Probed(settings, logger_ok, writable, ai_fault, responsive),
                    settings = "broken")

\* a step of a caller of the converter's manager
ManagerStep == model_manager' # model_manager

\* C40: the ai_models probe does not observe the application's resource
\* manager: _check_ai_models_health builds a new ModelManager on every call,
\* so the component status and the overall status that get_health_status()
\* reports are the same whether or not the converter's manager has been
\* initialized, cleaned up or has failed; asked of a manager just built, the
\* probe never answers "healthy".
C40_ProbeIgnoresManager ==
    [][/\ ManagerStep =>
            \A settings \in SettingsStates, logger_ok \in BOOLEAN,
               writable \in BOOLEAN, ai_fault \in AiFaults, responsive \in BOOLEAN :
                StatusFor(settings, logger_ok, writable, ai_fault, responsive)'
                    = StatusFor(settings, logger_ok, writable, ai_fault, responsive)
       /\ (health' # health /\ ~health'.status_raised /\ ~health'.health_status.error) =>
            /\ health'.health_status.components[6] # "healthy"
            /\ health'.ai_fault = "none" =>
                  health'.health_status.components[6] = "degraded"
            /\ model_manager' = model_manager]_vars

\* the converter's manager is initialized and has passed its own health
\* check, and the status polled then reports ai_models as "degraded"
C40_Witness ==
    /\ health.op = "get_health_status"
    /\ health.ai_fault = "none"
    /\ Reported
    /\ Components[6] = "degraded"
    /\ health.health_status.status = "degraded"
    /\ model_manager.initialized
    /\ model_manager.converter # NoHandle
    /\ model_manager.last_health_check > 0

====
